---- MODULE Spec2Model ----
(***************************************************************************)
(* A model of the two cores of the repository:                             *)
(*   - the vote tower  (programs/vote/src/vote_state.rs)                   *)
(*   - the page engine (src/page_table.rs)                                 *)
(* Each core has its own specifications; the variables of the other core   *)
(* stay at their initial value.                                            *)
(***************************************************************************)
EXTENDS Integers, Sequences, FiniteSets, TLC

VARIABLES
    vote_state,     \* the VoteState stored in the vote account
    lamports,       \* lamports of the vote account
    to_lamports,    \* lamports of the destination account of withdraw
    op,             \* the operation of the last step
    ret,            \* what the last step returned
    arg,            \* the arguments of the last step that claims refer to
    expired,        \* history: has pop_expired_votes ever dropped a vote
    steps,          \* number of operations applied so far
    page_table,     \* PageTable.page_table: the vector of pages
    allocated_pages,\* PageTable.allocated_pages: [max, allocated, free]
    mem_locks,      \* PageTable.mem_locks: the set of locked keys
    batches,        \* the batches travelling through the pipeline, one per worker
    exec            \* what the last step of par_execute did (NoExec after any other step)

vars == <<vote_state, lamports, to_lamports, op, ret, arg, expired, steps,
          page_table, allocated_pages, mem_locks, batches, exec>>

tower_vars == <<vote_state, lamports, to_lamports, op, ret, arg, expired, steps>>
page_vars == <<page_table, allocated_pages, mem_locks, batches, exec>>

(***************************************************************************)
(* Program constants                                                       *)
(***************************************************************************)
MAX_LOCKOUT_HISTORY == 31
INITIAL_LOCKOUT == 2
MAX_EPOCH_CREDITS_HISTORY == 64
MAX_ITEMS == 32

(***************************************************************************)
(* Bounds of the model                                                     *)
(***************************************************************************)
\* operations applied after the initial state
MaxSteps == 2
\* a voted slot is at most this far beyond the newest vote
MaxJump == 4
\* the initial towers are the ones built by voting on slots 0 .. n-1,
\* n <= MAX_LOCKOUT_HISTORY + MaxPrefillOver
MaxPrefillOver == 2
\* epochs passed to process_slot are 0 .. MaxEpoch
MaxEpoch == 1
\* a vote checked against a witness names slots newest-1 .. newest-1+MaxVoteSlot
MaxVoteSlot == 3
\* a vote holds at most MaxVoteLen slots, a witness at most MaxVoteLen entries
MaxVoteLen == 2
\* keys of the calls that contend for the memory locks are 1 .. MaxKey
MaxKey == 3
\* workers that take batches through the pipeline at the same time
MaxWorkers == 2
\* calls in a batch
MaxBatchLen == 2
\* fee and amount of a call are 0 .. MaxFee
MaxFee == 1
\* the value decoded from user_data is 0 .. MaxUserData
MaxUserData == 2
\* operations applied to a vote account
MaxOps == 3
\* slots handed to slash are 0 .. MaxSlashSlot
MaxSlashSlot == 3
\* process_slot calls applied to a fresh tower
MaxTowerOps == 6

\* calls of AllocatedPages::free in one behaviour
MaxFrees == 1

(***************************************************************************)
(* Helpers                                                                 *)
(***************************************************************************)
\* Option<T> is a sequence of length 0 (None) or 1 (Some)
None == <<>>
Some(x) == <<x>>

Last(s) == s[Len(s)]
Front(s) == SubSeq(s, 1, Len(s) - 1)

RECURSIVE SeqMax(_)
SeqMax(s) == IF Len(s) = 1 THEN s[1]
             ELSE LET m == SeqMax(Tail(s)) IN IF s[1] > m THEN s[1] ELSE m

Pubkey_default == 0

(***************************************************************************)
(* Lockout                                                                 *)
(***************************************************************************)
Lockout_new(slot) == [slot |-> slot, confirmation_count |-> 1]

lockout(l) == INITIAL_LOCKOUT ^ l.confirmation_count

expiration_slot(l) == l.slot + lockout(l)

is_expired(l, slot) == expiration_slot(l) < slot

(***************************************************************************)
(* VoteState                                                               *)
(***************************************************************************)
CircBuf_default ==
    [buf |-> [i \in 1..MAX_ITEMS |-> <<Pubkey_default, 0, 0, 0>>],
     idx |-> MAX_ITEMS - 1]

VoteState_default ==
    [node_pubkey |-> Pubkey_default,
     authorized_voter |-> Pubkey_default,
     authorized_voter_epoch |-> 0,
     prior_voters |-> CircBuf_default,
     authorized_withdrawer |-> Pubkey_default,
     commission |-> 0,
     votes |-> <<>>,
     root_slot |-> None,
     epoch_credits |-> <<>>,
     last_timestamp |-> [slot |-> 0, timestamp |-> 0],
     has_been_slashed |-> FALSE]

VoteState_new(vote_init, clock) ==
    [VoteState_default EXCEPT
        !.node_pubkey = vote_init.node_pubkey,
        !.authorized_voter = vote_init.authorized_voter,
        !.authorized_voter_epoch = clock.epoch,
        !.authorized_withdrawer = vote_init.authorized_withdrawer,
        !.commission = vote_init.commission]

\* only one expired vote is dropped off the back
pop_expired_votes_once(votes, slot) ==
    IF Len(votes) > 0 /\ is_expired(Last(votes), slot) THEN Front(votes) ELSE votes

\* the votes left after dropping every expired vote off the back
RECURSIVE pop_expired_votes(_, _)
pop_expired_votes(votes, slot) ==
    IF Len(votes) > 0 /\ is_expired(Last(votes), slot)
    THEN pop_expired_votes(Front(votes), slot)
    ELSE votes

double_lockouts_ge(votes) ==
    LET stack_depth == Len(votes) IN
    [k \in 1..Len(votes) |->
        IF stack_depth >= (k - 1) + votes[k].confirmation_count
        THEN [votes[k] EXCEPT !.confirmation_count = @ + 1]
        ELSE votes[k]]

\* the loop starts at the second entry: the oldest entry is never doubled
double_lockouts_skips_oldest(votes) ==
    LET stack_depth == Len(votes) IN
    [k \in 1..Len(votes) |->
        IF k > 1 /\ stack_depth > (k - 1) + votes[k].confirmation_count
        THEN [votes[k] EXCEPT !.confirmation_count = @ + 1]
        ELSE votes[k]]

\* the index i of the source is k - 1
double_lockouts(votes) ==
    LET stack_depth == Len(votes) IN
    [k \in 1..Len(votes) |->
        IF stack_depth > (k - 1) + votes[k].confirmation_count
        THEN [votes[k] EXCEPT !.confirmation_count = @ + 1]
        ELSE votes[k]]

credits(vs) ==
    IF vs.epoch_credits = <<>> THEN 0 ELSE Last(vs.epoch_credits)[2]

current_epoch(vs) ==
    IF vs.epoch_credits = <<>> THEN 0 ELSE Last(vs.epoch_credits)[1]

\* the history is never trimmed
increment_credits_untrimmed(vs, epoch) ==
    LET ec == vs.epoch_credits
        ec1 == IF ec = <<>> THEN <<<<epoch, 0, 0>>>>
               ELSE IF epoch /= Last(ec)[1]
               THEN IF Last(ec)[2] /= Last(ec)[3]
                    THEN Append(ec, <<epoch, Last(ec)[2], Last(ec)[2]>>)
                    ELSE [ec EXCEPT ![Len(ec)][1] = epoch]
               ELSE ec
    IN  [vs EXCEPT !.epoch_credits = [ec1 EXCEPT ![Len(ec1)][2] = @ + 1]]

\* the tuple of a new epoch starts from the credits before the previous epoch
increment_credits_stale_prev(vs, epoch) ==
    LET ec == vs.epoch_credits
        ec1 == IF ec = <<>> THEN <<<<epoch, 0, 0>>>>
               ELSE IF epoch /= Last(ec)[1]
               THEN LET ec2 == Append(ec, <<epoch, Last(ec)[2], Last(ec)[3]>>)
                    IN  IF Len(ec2) > MAX_EPOCH_CREDITS_HISTORY
                        THEN Tail(ec2) ELSE ec2
               ELSE ec
    IN  [vs EXCEPT !.epoch_credits = [ec1 EXCEPT ![Len(ec1)][2] = @ + 1]]

increment_credits(vs, epoch) ==
    LET ec == vs.epoch_credits
        ec1 == IF ec = <<>> THEN <<<<epoch, 0, 0>>>>
               ELSE IF epoch /= Last(ec)[1]
               THEN LET cr == Last(ec)[2]
                        prev == Last(ec)[3]
                        ec2 == IF cr /= prev
                               THEN Append(ec, <<epoch, cr, cr>>)
                               ELSE [ec EXCEPT ![Len(ec)][1] = epoch]
                    IN  IF Len(ec2) > MAX_EPOCH_CREDITS_HISTORY
                        THEN Tail(ec2) ELSE ec2
               ELSE ec
    IN  [vs EXCEPT !.epoch_credits = [ec1 EXCEPT ![Len(ec1)][2] = @ + 1]]

is_old_slot_gt(vs, slot) ==
    Len(vs.votes) > 0 /\ Last(vs.votes).slot > slot

is_old_slot_never(vs, slot) == FALSE

\* the slot is compared with the oldest vote
is_old_slot_front(vs, slot) ==
    Len(vs.votes) > 0 /\ vs.votes[1].slot >= slot

\* votes.back().map_or(false, |old_vote| old_vote.slot >= slot)
is_old_slot(vs, slot) ==
    Len(vs.votes) > 0 /\ Last(vs.votes).slot >= slot

\* the root is read off the front after the oldest vote was popped
process_slot_roots_new_front(vs, slot, epoch) ==
    IF is_old_slot(vs, slot) THEN vs
    ELSE
      LET vote == Lockout_new(slot)
          vs1 == [vs EXCEPT !.votes = pop_expired_votes(vs.votes, slot)]
          vs2 == IF Len(vs1.votes) = MAX_LOCKOUT_HISTORY
                 THEN increment_credits(
                        [vs1 EXCEPT !.root_slot = Some(vs1.votes[2].slot),
                                    !.votes = Tail(vs1.votes)], epoch)
                 ELSE vs1
          vs3 == [vs2 EXCEPT !.votes = Append(vs2.votes, vote)]
      IN  [vs3 EXCEPT !.votes = double_lockouts(vs3.votes)]

\* the root is set to the confirmation count of the popped vote
process_slot_roots_count(vs, slot, epoch) ==
    IF is_old_slot(vs, slot) THEN vs
    ELSE
      LET vote == Lockout_new(slot)
          vs1 == [vs EXCEPT !.votes = pop_expired_votes(vs.votes, slot)]
          vs2 == IF Len(vs1.votes) = MAX_LOCKOUT_HISTORY
                 THEN increment_credits(
                        [vs1 EXCEPT !.root_slot = Some(vs1.votes[1].confirmation_count),
                                    !.votes = Tail(vs1.votes)], epoch)
                 ELSE vs1
          vs3 == [vs2 EXCEPT !.votes = Append(vs2.votes, vote)]
      IN  [vs3 EXCEPT !.votes = double_lockouts(vs3.votes)]

\* the oldest vote becomes the root but stays on the stack
process_slot_keeps_front(vs, slot, epoch) ==
    IF is_old_slot(vs, slot) THEN vs
    ELSE
      LET vote == Lockout_new(slot)
          vs1 == [vs EXCEPT !.votes = pop_expired_votes(vs.votes, slot)]
          vs2 == IF Len(vs1.votes) = MAX_LOCKOUT_HISTORY
                 THEN increment_credits(
                        [vs1 EXCEPT !.root_slot = Some(vs1.votes[1].slot)], epoch)
                 ELSE vs1
          vs3 == [vs2 EXCEPT !.votes = Append(vs2.votes, vote)]
      IN  [vs3 EXCEPT !.votes = double_lockouts(vs3.votes)]

\* the stack is tested for fullness before the expired votes are dropped
process_slot_full_before_expiry(vs, slot, epoch) ==
    IF is_old_slot(vs, slot) THEN vs
    ELSE
      LET vote == Lockout_new(slot)
          full == Len(vs.votes) = MAX_LOCKOUT_HISTORY
          vs1 == [vs EXCEPT !.votes = pop_expired_votes(vs.votes, slot)]
          vs2 == IF full
                 THEN increment_credits(
                        [vs1 EXCEPT !.root_slot = Some(vs.votes[1].slot),
                                    !.votes = IF @ = <<>> THEN @ ELSE Tail(@)], epoch)
                 ELSE vs1
          vs3 == [vs2 EXCEPT !.votes = Append(vs2.votes, vote)]
      IN  [vs3 EXCEPT !.votes = double_lockouts(vs3.votes)]

\* the lockouts are doubled before the new vote is pushed
process_slot_doubles_first(vs, slot, epoch) ==
    IF is_old_slot(vs, slot) THEN vs
    ELSE
      LET vote == Lockout_new(slot)
          vs1 == [vs EXCEPT !.votes = pop_expired_votes(vs.votes, slot)]
          vs2 == IF Len(vs1.votes) = MAX_LOCKOUT_HISTORY
                 THEN increment_credits(
                        [vs1 EXCEPT !.root_slot = Some(vs1.votes[1].slot),
                                    !.votes = Tail(vs1.votes)], epoch)
                 ELSE vs1
          vs3 == [vs2 EXCEPT !.votes = double_lockouts(vs2.votes)]
      IN  [vs3 EXCEPT !.votes = Append(vs3.votes, vote)]

process_slot(vs, slot, epoch) ==
    IF is_old_slot(vs, slot) THEN vs
    ELSE
      LET vote == Lockout_new(slot)
          vs1 == [vs EXCEPT !.votes = pop_expired_votes(vs.votes, slot)]
          vs2 == IF Len(vs1.votes) = MAX_LOCKOUT_HISTORY
                 THEN increment_credits(
                        [vs1 EXCEPT !.root_slot = Some(vs1.votes[1].slot),
                                    !.votes = Tail(vs1.votes)], epoch)
                 ELSE vs1
          vs3 == [vs2 EXCEPT !.votes = Append(vs2.votes, vote)]
      IN  [vs3 EXCEPT !.votes = double_lockouts(vs3.votes)]

\* does process_slot(slot) drop at least one expired vote
drops_expired(vs, slot) ==
    /\ ~is_old_slot(vs, slot)
    /\ pop_expired_votes(vs.votes, slot) /= vs.votes

\* vote.slots.iter().for_each(|s| self.process_slot(*s, epoch))
RECURSIVE process_slots(_, _, _)
process_slots(vs, slots, epoch) ==
    \* (the test on vs is never true: it makes TLC evaluate vs before it goes on)
    IF Len(vs.votes) < 0 \/ slots = <<>> THEN vs
    ELSE process_slots(process_slot(vs, slots[1], epoch), Tail(slots), epoch)

RECURSIVE any_drops_expired(_, _, _)
any_drops_expired(vs, slots, epoch) ==
    IF slots = <<>> THEN FALSE
    ELSE \/ drops_expired(vs, slots[1])
         \/ any_drops_expired(process_slot(vs, slots[1], epoch), Tail(slots), epoch)

\* a matched slot advances i only
RECURSIVE check_slots_walk_keeps_j(_, _, _, _, _)
check_slots_walk_keeps_j(vs, slots, slot_hashes, i, j) ==
    IF i < Len(slots) /\ j > 0
    THEN IF is_old_slot(vs, slots[i + 1])
         THEN check_slots_walk_keeps_j(vs, slots, slot_hashes, i + 1, j)
         ELSE IF slots[i + 1] /= slot_hashes[j][1]
         THEN check_slots_walk_keeps_j(vs, slots, slot_hashes, i, j - 1)
         ELSE check_slots_walk_keeps_j(vs, slots, slot_hashes, i + 1, j)
    ELSE <<i, j>>

\* the loop of check_slots_are_valid; i and j are the indices of the source
\* (vote.slots[i] is slots[i + 1], slot_hashes[j - 1] is slot_hashes[j])
RECURSIVE check_slots_walk(_, _, _, _, _)
check_slots_walk(vs, slots, slot_hashes, i, j) ==
    IF i < Len(slots) /\ j > 0
    THEN IF is_old_slot(vs, slots[i + 1])
         THEN check_slots_walk(vs, slots, slot_hashes, i + 1, j)
         ELSE IF slots[i + 1] /= slot_hashes[j][1]
         THEN check_slots_walk(vs, slots, slot_hashes, i, j - 1)
         ELSE check_slots_walk(vs, slots, slot_hashes, i + 1, j - 1)
    ELSE <<i, j>>

\* the hash is read at the newest entry of the witness
check_slots_are_valid_newest_hash(vs, vote, slot_hashes) ==
    LET ij == check_slots_walk(vs, vote.slots, slot_hashes, 0, Len(slot_hashes))
        i == ij[1]
        j == ij[2]
    IN  IF j = Len(slot_hashes) THEN "VoteTooOld"
        ELSE IF i /= Len(vote.slots) THEN "SlotsMismatch"
        ELSE IF slot_hashes[1][2] /= vote.hash THEN "SlotHashMismatch"
        ELSE "Ok"

check_slots_are_valid(vs, vote, slot_hashes) ==
    LET ij == check_slots_walk(vs, vote.slots, slot_hashes, 0, Len(slot_hashes))
        i == ij[1]
        j == ij[2]
    IN  IF j = Len(slot_hashes) THEN "VoteTooOld"
        ELSE IF i /= Len(vote.slots) THEN "SlotsMismatch"
        ELSE IF slot_hashes[j + 1][2] /= vote.hash THEN "SlotHashMismatch"
        ELSE "Ok"

\* VoteState::process_vote: the result and the state it leaves
VoteState_process_vote(vs, vote, slot_hashes, epoch) ==
    IF vote.slots = <<>> THEN [ret |-> "EmptySlots", vs |-> vs]
    ELSE LET chk == check_slots_are_valid(vs, vote, slot_hashes) IN
         IF chk /= "Ok" THEN [ret |-> chk, vs |-> vs]
         ELSE [ret |-> "Ok", vs |-> process_slots(vs, vote.slots, epoch)]

\* the timestamp is not compared with the stored one
process_timestamp_slot_only(vs, slot, timestamp) ==
    IF \/ slot < vs.last_timestamp.slot
       \/ /\ slot = vs.last_timestamp.slot
          /\ [slot |-> slot, timestamp |-> timestamp] /= vs.last_timestamp
          /\ vs.last_timestamp.slot /= 0
    THEN [ret |-> "TimestampTooOld", vs |-> vs]
    ELSE [ret |-> "Ok",
          vs |-> [vs EXCEPT !.last_timestamp = [slot |-> slot, timestamp |-> timestamp]]]

\* a stored slot of 0 is not treated as the initial timestamp
process_timestamp_no_initial(vs, slot, timestamp) ==
    IF \/ (slot < vs.last_timestamp.slot \/ timestamp < vs.last_timestamp.timestamp)
       \/ /\ (slot = vs.last_timestamp.slot \/ timestamp = vs.last_timestamp.timestamp)
          /\ [slot |-> slot, timestamp |-> timestamp] /= vs.last_timestamp
    THEN [ret |-> "TimestampTooOld", vs |-> vs]
    ELSE [ret |-> "Ok",
          vs |-> [vs EXCEPT !.last_timestamp = [slot |-> slot, timestamp |-> timestamp]]]

process_timestamp(vs, slot, timestamp) ==
    IF \/ (slot < vs.last_timestamp.slot \/ timestamp < vs.last_timestamp.timestamp)
       \/ /\ (slot = vs.last_timestamp.slot \/ timestamp = vs.last_timestamp.timestamp)
          /\ [slot |-> slot, timestamp |-> timestamp] /= vs.last_timestamp
          /\ vs.last_timestamp.slot /= 0
    THEN [ret |-> "TimestampTooOld", vs |-> vs]
    ELSE [ret |-> "Ok",
          vs |-> [vs EXCEPT !.last_timestamp = [slot |-> slot, timestamp |-> timestamp]]]

verify_authorized_signer(authorized, signers) ==
    IF authorized \in signers THEN "Ok" ELSE "MissingRequiredSignature"

process_vote_stores_early(stored, slot_hashes, clock, vote, signers) ==
    IF stored.authorized_voter = Pubkey_default
    THEN [ret |-> "UninitializedAccount", vs |-> stored]
    ELSE IF verify_authorized_signer(stored.authorized_voter, signers) /= "Ok"
    THEN [ret |-> "MissingRequiredSignature", vs |-> stored]
    ELSE LET r == VoteState_process_vote(stored, vote, slot_hashes, clock.epoch) IN
         IF r.ret /= "Ok" THEN [ret |-> r.ret, vs |-> stored]
         ELSE IF vote.timestamp /= None
         THEN LET t == process_timestamp(r.vs, SeqMax(vote.slots), vote.timestamp[1])
              IN  [ret |-> t.ret, vs |-> t.vs]
         ELSE [ret |-> "Ok", vs |-> r.vs]

\* the account-level process_vote: the result and the state the account holds
\* afterwards (set_state runs on the last line only)
process_vote(stored, slot_hashes, clock, vote, signers) ==
    IF stored.authorized_voter = Pubkey_default
    THEN [ret |-> "UninitializedAccount", vs |-> stored]
    ELSE IF verify_authorized_signer(stored.authorized_voter, signers) /= "Ok"
    THEN [ret |-> "MissingRequiredSignature", vs |-> stored]
    ELSE LET r == VoteState_process_vote(stored, vote, slot_hashes, clock.epoch) IN
         IF r.ret /= "Ok" THEN [ret |-> r.ret, vs |-> stored]
         ELSE IF vote.timestamp /= None
         THEN LET t == process_timestamp(r.vs, SeqMax(vote.slots), vote.timestamp[1])
              IN  IF t.ret /= "Ok" THEN [ret |-> t.ret, vs |-> stored]
                  ELSE [ret |-> "Ok", vs |-> t.vs]
         ELSE [ret |-> "Ok", vs |-> r.vs]

Reverse(s) == [k \in 1..Len(s) |-> s[Len(s) + 1 - k]]

process_vote_unchecked(vs, vote) ==
    LET slot_hashes == [k \in 1..Len(vote.slots) |->
                            <<Reverse(vote.slots)[k], vote.hash>>]
    IN  VoteState_process_vote(vs, vote, slot_hashes, current_epoch(vs)).vs

(***************************************************************************)
(* Slashing and the account-level operations                               *)
(***************************************************************************)
process_slot_vote_unchecked(vs, slot) ==
    process_vote_unchecked(vs, [slots |-> <<slot>>, hash |-> 0, timestamp |-> None])

\* sort() and dedup() of a collection of slots
RECURSIVE sorted(_)
sorted(S) ==
    IF S = {} THEN <<>>
    ELSE LET least == CHOOSE x \in S : \A y \in S : x <= y
         IN  <<least>> \o sorted(S \ {least})

RECURSIVE process_slot_votes_unchecked(_, _)
process_slot_votes_unchecked(vs, slots) ==
    IF Len(vs.votes) < 0 \/ slots = <<>> THEN vs
    ELSE process_slot_votes_unchecked(process_slot_vote_unchecked(vs, slots[1]),
                                      Tail(slots))

Range(s) == {s[k] : k \in 1..Len(s)}

VoteState_slots(vs) == vs.root_slot \o [k \in 1..Len(vs.votes) |-> vs.votes[k].slot]

\* zip stops at the shorter of the two
equal(vs, other) ==
    \A k \in 1..Len(other) :
        k <= Len(VoteState_slots(vs)) => other[k] = VoteState_slots(vs)[k]

same_or_older_lt(vs, other) ==
    (IF vs.votes /= <<>> THEN Last(vs.votes).slot
     ELSE IF vs.root_slot /= None THEN vs.root_slot[1] ELSE 0)
    < (IF other /= <<>> THEN Last(other) ELSE 0)

same_or_older(vs, other) ==
    (IF vs.votes /= <<>> THEN Last(vs.votes).slot
     ELSE IF vs.root_slot /= None THEN vs.root_slot[1] ELSE 0)
    <= (IF other /= <<>> THEN Last(other) ELSE 0)

\* the slots returned, as a set: the order of a HashSet difference is not fixed.
\* Both tests of the condition are pure; same_or_older is written first so
\* that the replay `test` is evaluated only when the result depends on it.
slashable_slots(vs, votes) ==
    LET self_set == {vs.votes[k].slot : k \in 1..Len(vs.votes)}
        b_set == Range(votes)
        test == process_slot_votes_unchecked(VoteState_default,
                                             sorted(self_set \cup b_set))
        test_set == {test.votes[k].slot : k \in 1..Len(test.votes)}
    IN  IF ~same_or_older(vs, votes) /\ ~equal(test, votes)
        THEN (test_set \ self_set) \cup (test_set \ b_set)
        ELSE {}

\* slot_history is the set of slots it holds: check gives Found for these
check(slot_history, slot) == IF slot \in slot_history THEN "Found" ELSE "NotFound"

slash_forgets(vs, slot_history, slashable_slot) ==
    IF check(slot_history, slashable_slot) /= "NotFound" THEN vs
    ELSE [vs EXCEPT !.has_been_slashed = slashable_slots(vs, <<slashable_slot>>) /= {}]

slash(vs, slot_history, slashable_slot) ==
    IF check(slot_history, slashable_slot) /= "NotFound" THEN vs
    ELSE [vs EXCEPT !.has_been_slashed =
                        vs.has_been_slashed \/ slashable_slots(vs, <<slashable_slot>>) /= {}]

previous_signer(vs, signers) ==
    \/ vs.authorized_voter \in signers
    \/ \E k \in 1..MAX_ITEMS :
          /\ vs.prior_voters.buf[k][1] = Pubkey_default
          /\ vs.prior_voters.buf[k][1] \in signers

\* CircBuf::append
append(circ, item) ==
    LET idx == (circ.idx + 1) % MAX_ITEMS
    IN  [buf |-> [circ.buf EXCEPT ![idx + 1] = item], idx |-> idx]

\* the voter's signature is asked for both authorities
authorize_voter_signs_all(stored, authorized, vote_authorize, signers, clock) ==
    IF verify_authorized_signer(stored.authorized_voter, signers) /= "Ok"
    THEN [ret |-> "MissingRequiredSignature", vs |-> stored]
    ELSE IF vote_authorize = "Withdrawer"
    THEN [ret |-> "Ok", vs |-> [stored EXCEPT !.authorized_withdrawer = authorized]]
    ELSE IF stored.authorized_voter_epoch = clock.epoch
    THEN [ret |-> "TooSoonToReauthorize", vs |-> stored]
    ELSE [ret |-> "Ok",
          vs |-> [stored EXCEPT
                    !.prior_voters = append(@, <<stored.authorized_voter,
                                                 stored.authorized_voter_epoch,
                                                 clock.epoch, clock.slot>>),
                    !.authorized_voter = authorized,
                    !.authorized_voter_epoch = clock.epoch]]

authorize(stored, authorized, vote_authorize, signers, clock) ==
    IF vote_authorize = "Voter"
    THEN IF verify_authorized_signer(stored.authorized_voter, signers) /= "Ok"
         THEN [ret |-> "MissingRequiredSignature", vs |-> stored]
         ELSE IF stored.authorized_voter_epoch = clock.epoch
         THEN [ret |-> "TooSoonToReauthorize", vs |-> stored]
         ELSE [ret |-> "Ok",
               vs |-> [stored EXCEPT
                         !.prior_voters = append(@, <<stored.authorized_voter,
                                                      stored.authorized_voter_epoch,
                                                      clock.epoch, clock.slot>>),
                         !.authorized_voter = authorized,
                         !.authorized_voter_epoch = clock.epoch]]
    ELSE IF verify_authorized_signer(stored.authorized_withdrawer, signers) /= "Ok"
         THEN [ret |-> "MissingRequiredSignature", vs |-> stored]
         ELSE [ret |-> "Ok", vs |-> [stored EXCEPT !.authorized_withdrawer = authorized]]

update_node(stored, node_pubkey, signers) ==
    IF verify_authorized_signer(stored.authorized_voter, signers) /= "Ok"
    THEN [ret |-> "MissingRequiredSignature", vs |-> stored]
    ELSE [ret |-> "Ok", vs |-> [stored EXCEPT !.node_pubkey = node_pubkey]]

\* the destination is credited and the vote account is not debited
withdraw_no_debit(stored, held, to_held, amount, signers) ==
    IF verify_authorized_signer(stored.authorized_withdrawer, signers) /= "Ok"
    THEN [ret |-> "MissingRequiredSignature", lamports |-> held, to_lamports |-> to_held]
    ELSE IF held < amount
    THEN [ret |-> "InsufficientFunds", lamports |-> held, to_lamports |-> to_held]
    ELSE [ret |-> "Ok", lamports |-> held, to_lamports |-> to_held + amount]

\* withdraw: the result and the lamports of the two accounts afterwards
withdraw(stored, held, to_held, amount, signers) ==
    IF verify_authorized_signer(stored.authorized_withdrawer, signers) /= "Ok"
    THEN [ret |-> "MissingRequiredSignature", lamports |-> held, to_lamports |-> to_held]
    ELSE IF held < amount
    THEN [ret |-> "InsufficientFunds", lamports |-> held, to_lamports |-> to_held]
    ELSE [ret |-> "Ok", lamports |-> held - amount, to_lamports |-> to_held + amount]

initialize_account(stored, vote_init, clock) ==
    IF stored.authorized_voter /= Pubkey_default
    THEN [ret |-> "AccountAlreadyInitialized", vs |-> stored]
    ELSE [ret |-> "Ok", vs |-> VoteState_new(vote_init, clock)]

\* the slots of one vote slashed in turn
RECURSIVE slash_slots(_, _, _)
slash_slots(vs, slot_history, vote_slots) ==
    IF vs.has_been_slashed \notin BOOLEAN \/ vote_slots = <<>> THEN vs
    ELSE slash_slots(slash(vs, slot_history, vote_slots[1]), slot_history,
                     Tail(vote_slots))

\* the loop over the instructions of the transaction.  An instruction is
\* [program_id, vote, key]: vote is None when the data is no Vote instruction,
\* key is the first account of the instruction.
RECURSIVE slash_instructions(_, _, _, _, _, _)
slash_instructions(vs, slot_history, program_id, account_key, signers, instructions) ==
    IF instructions = <<>> THEN vs
    ELSE LET ix == instructions[1]
             rest == Tail(instructions)
         IN  IF ix.program_id /= program_id \/ ix.vote = None
                \/ ix.key /= account_key \/ previous_signer(vs, signers)
             THEN slash_instructions(vs, slot_history, program_id, account_key,
                                     signers, rest)
             ELSE slash_instructions(slash_slots(vs, slot_history, ix.vote[1].slots),
                                     slot_history, program_id, account_key,
                                     signers, rest)

\* a transaction is [verify_refs, verify, signers, instructions]; the vote
\* program is program 1 and the account has key 1
slash_state(stored, slot_history, program_id, tx) ==
    IF ~tx.verify_refs \/ ~tx.verify
    THEN [ret |-> "InvalidSlashTransaction", vs |-> stored]
    ELSE [ret |-> "Ok",
          vs |-> slash_instructions(stored, slot_history, program_id, 1,
                                    tx.signers, tx.instructions)]

(***************************************************************************)
(* Page engine: pages, calls and the page index (src/page_table.rs)        *)
(***************************************************************************)
\* keys are 1 .. MaxKey; [0; 4] is the default key
DEFAULT_CONTRACT == 0

\* balances, fees and amounts are u64 in the source; the model keeps the
\* wrap-around of the release build on a narrower word
U64_MODULUS == 4
wrapping_add(a, b) == (a + b) % U64_MODULUS
wrapping_sub(a, b) == (a - b) % U64_MODULUS

\* user_data is modelled by the value its bytes decode to; BadUserData stands
\* for bytes that do not decode
BadUserData == -1
deserialize(user_data) == IF user_data = BadUserData THEN None ELSE Some(user_data)

Page_default ==
    [owner |-> 0, contract |-> 0, balance |-> 0, version |-> 0,
     memhash |-> 0, memory |-> <<>>]

\* Vec::resize(new_len, value)
resize(v, new_len, value) ==
    IF new_len <= Len(v) THEN SubSeq(v, 1, new_len)
    ELSE v \o [k \in 1..(new_len - Len(v)) |-> value]

AllocatedPages_new == [max |-> 0, allocated |-> <<>>, free |-> <<>>]

lookup(ap, key) ==
    IF key \in DOMAIN ap.allocated THEN Some(ap.allocated[key]) ELSE None

\* free(key) of a key that is present: its index goes on the free list
free(ap, key) ==
    [max |-> ap.max,
     free |-> Append(ap.free, ap.allocated[key]),
     allocated |-> [k \in DOMAIN ap.allocated \ {key} |-> ap.allocated[k]]]

\* the index taken from the free list stays on it
allocate_keeps_free(ap, key) ==
    LET reuse == Len(ap.free) > 0
        page == IF reuse THEN Last(ap.free) ELSE ap.max
    IN  [page |-> page,
         old_is_none |-> key \notin DOMAIN ap.allocated,
         ap |-> [max |-> IF reuse THEN ap.max ELSE ap.max + 1,
                 free |-> ap.free,
                 allocated |-> [k \in DOMAIN ap.allocated \cup {key} |->
                                   IF k = key THEN page ELSE ap.allocated[k]]]]

\* the page index handed out, the new index, and whether the assertion
\* old.is_none() holds
allocate(ap, key) ==
    LET reuse == Len(ap.free) > 0
        page == IF reuse THEN Last(ap.free) ELSE ap.max
    IN  [page |-> page,
         old_is_none |-> key \notin DOMAIN ap.allocated,
         ap |-> [max |-> IF reuse THEN ap.max ELSE ap.max + 1,
                 free |-> IF reuse THEN Front(ap.free) ELSE ap.free,
                 allocated |-> [k \in DOMAIN ap.allocated \cup {key} |->
                                   IF k = key THEN page ELSE ap.allocated[k]]]]

\* a page table is [page_table, allocated_pages]
PageTable_new == [page_table |-> <<>>, allocated_pages |-> AllocatedPages_new]

\* force_allocate (test only): a page for the caller (owner) or the
\* destination of every call, holding `amount`
RECURSIVE force_allocate(_, _, _, _)
force_allocate(pt, packet, owner, amount) ==
    IF packet = <<>> THEN pt
    ELSE LET tx == packet[1]
             key == IF owner THEN tx.caller ELSE tx.destination
             page == [owner |-> key, contract |-> tx.contract, balance |-> amount,
                      version |-> 0, memhash |-> 0, memory |-> <<>>]
             a == allocate(pt.allocated_pages, key)
             ix == a.page
             table == IF Len(pt.page_table) <= ix
                      THEN resize(pt.page_table, ix + 1, page)
                      ELSE [pt.page_table EXCEPT ![ix + 1] = page]
         IN  force_allocate([page_table |-> table, allocated_pages |-> a.ap],
                            Tail(packet), owner, amount)

(***************************************************************************)
(* Stage 1 and 6: the memory locks                                         *)
(***************************************************************************)
collision_caller_only(locks, p) == p.caller \in locks

collision(locks, p) == p.caller \in locks \/ p.destination \in locks

\* the keys of a call are inserted whether it collides or not
RECURSIVE acquire_memory_lock_inserts_always(_, _, _)
acquire_memory_lock_inserts_always(locks, packet, acquired_memory) ==
    IF Len(acquired_memory) = Len(packet)
    THEN [mem_locks |-> locks, acquired_memory |-> acquired_memory]
    ELSE LET p == packet[Len(acquired_memory) + 1]
             c == collision(locks, p)
         IN  acquire_memory_lock_inserts_always(
                 locks \cup {p.caller, p.destination},
                 packet, Append(acquired_memory, ~c))

RECURSIVE acquire_memory_lock(_, _, _)
acquire_memory_lock(locks, packet, acquired_memory) ==
    IF Len(acquired_memory) = Len(packet)
    THEN [mem_locks |-> locks, acquired_memory |-> acquired_memory]
    ELSE LET p == packet[Len(acquired_memory) + 1]
             c == collision(locks, p)
         IN  acquire_memory_lock(
                 IF c THEN locks ELSE locks \cup {p.caller, p.destination},
                 packet, Append(acquired_memory, ~c))

\* the keys of every call are removed, acquired or not
RECURSIVE release_memory_lock_all(_, _, _)
release_memory_lock_all(locks, packet, lock) ==
    IF packet = <<>> THEN locks
    ELSE release_memory_lock_all(locks \ {packet[1].caller, packet[1].destination},
                                 Tail(packet), Tail(lock))

RECURSIVE release_memory_lock(_, _, _)
release_memory_lock(locks, packet, lock) ==
    IF packet = <<>> THEN locks
    ELSE release_memory_lock(
             IF lock[1] THEN locks \ {packet[1].caller, packet[1].destination}
             ELSE locks,
             Tail(packet), Tail(lock))

(***************************************************************************)
(* Stage 2 to 4: validate_debits, find_new_keys, allocate_keys             *)
(***************************************************************************)
\* from_pages[i] of one call
validate_debit(table, ap, tx, acquired) ==
    IF ~acquired THEN None
    ELSE LET found == lookup(ap, tx.caller) IN
         IF found = None \/ found[1] >= Len(table) THEN None
         ELSE LET page == table[found[1] + 1] IN
              IF page.version >= tx.version THEN None
              ELSE IF page.contract /= tx.contract THEN None
              ELSE IF page.balance >= wrapping_add(tx.fee, tx.amount)
                   THEN found ELSE None

\* assert_eq!(page.owner, tx.call.caller) fails for call i
owner_assert_fails(table, ap, tx, acquired) ==
    /\ acquired
    /\ lookup(ap, tx.caller) /= None
    /\ lookup(ap, tx.caller)[1] < Len(table)
    /\ table[lookup(ap, tx.caller)[1] + 1].owner /= tx.caller

validate_debits(table, ap, packet, acquired_memory) ==
    [from_pages |-> [i \in 1..Len(packet) |->
                        validate_debit(table, ap, packet[i], acquired_memory[i])],
     panicked |-> \E i \in 1..Len(packet) :
                        owner_assert_fails(table, ap, packet[i], acquired_memory[i])]

\* the destination is looked up whether the debit was validated or not
find_new_keys_unvalidated(ap, packet, from_pages) ==
    [i \in 1..Len(packet) |-> lookup(ap, packet[i].destination)]

find_new_keys(ap, packet, from_pages) ==
    [i \in 1..Len(packet) |->
        IF from_pages[i] = None THEN None ELSE lookup(ap, packet[i].destination)]

RECURSIVE allocate_keys(_, _, _, _, _)
allocate_keys(pt, packet, from_pages, to_pages, i) ==
    IF i > Len(packet)
    THEN [page_table |-> pt.page_table, allocated_pages |-> pt.allocated_pages,
          to_pages |-> to_pages, panicked |-> FALSE]
    ELSE IF from_pages[i] = None \/ to_pages[i] /= None
    THEN allocate_keys(pt, packet, from_pages, to_pages, i + 1)
    ELSE LET tx == packet[i]
             page == [owner |-> tx.destination, contract |-> tx.contract,
                      balance |-> 0, version |-> 0, memhash |-> 0, memory |-> <<>>]
             a == allocate(pt.allocated_pages, tx.destination)
             ix == a.page
             grown == IF Len(pt.page_table) <= ix
                      THEN resize(pt.page_table, ix + 1, Page_default)
                      ELSE pt.page_table
         IN  IF ~a.old_is_none
             THEN [page_table |-> pt.page_table, allocated_pages |-> a.ap,
                   to_pages |-> to_pages, panicked |-> TRUE]
             ELSE allocate_keys(
                      [page_table |-> [grown EXCEPT ![ix + 1] = page],
                       allocated_pages |-> a.ap],
                      packet, from_pages, [to_pages EXCEPT ![i] = Some(ix)], i + 1)

(***************************************************************************)
(* Stage 5: load_and_execute                                               *)
(***************************************************************************)
\* the pages loaded for a call: the caller's page (inkeys[0]) and the
\* destination's page, as indices into the page table
load_pages(packet, from_pages, to_pages) ==
    [i \in 1..Len(packet) |->
        IF from_pages[i] /= None /\ to_pages[i] /= None
        THEN Some(<<from_pages[i][1], to_pages[i][1]>>) ELSE None]

SYSTEM_0_realloc(call, pages, user_data) ==
    [pages EXCEPT ![1].memory = resize(@, user_data, 0)]

SYSTEM_1_assign(call, pages, user_data) ==
    IF call.contract = DEFAULT_CONTRACT /\ pages[1].contract = DEFAULT_CONTRACT
    THEN [pages EXCEPT ![1].contract = user_data]
    ELSE pages

DEFAULT_CONTRACT_128_move_funds(call, pages, user_data) ==
    LET debited == [pages EXCEPT ![1].balance = wrapping_sub(@, user_data)]
    IN  [debited EXCEPT ![2].balance = wrapping_add(@, user_data)]

\* match (tx.contract, tx.method); the methods get the decoded user_data
dispatch(tx, call_pages) ==
    IF tx.method = 0 THEN SYSTEM_0_realloc(tx, call_pages, deserialize(tx.user_data)[1])
    ELSE IF tx.method = 1 THEN SYSTEM_1_assign(tx, call_pages, deserialize(tx.user_data)[1])
    ELSE IF tx.contract = DEFAULT_CONTRACT /\ tx.method = 128
         THEN DEFAULT_CONTRACT_128_move_funds(tx, call_pages, deserialize(tx.user_data)[1])
    ELSE call_pages

\* deserialize(user_data).unwrap() panics in the method the call reaches
dispatch_panics(tx) ==
    /\ tx.method \in {0, 1} \/ (tx.contract = DEFAULT_CONTRACT /\ tx.method = 128)
    /\ deserialize(tx.user_data) = None

RECURSIVE total_spendable(_, _)
total_spendable(pages, contract) ==
    IF pages = <<>> THEN 0
    ELSE wrapping_add(IF pages[1].contract = contract THEN pages[1].balance ELSE 0,
                      total_spendable(Tail(pages), contract))

RECURSIVE total_unspendable(_, _)
total_unspendable(pages, contract) ==
    IF pages = <<>> THEN 0
    ELSE wrapping_add(IF pages[1].contract /= contract THEN pages[1].balance ELSE 0,
                      total_unspendable(Tail(pages), contract))

\* loaded_pages[0].balance -= tx.fee
spend_fee(table, loaded, tx) ==
    [table EXCEPT ![loaded[1] + 1].balance = wrapping_sub(@, tx.fee)]

\* the commit loop *load = call.  When the caller is also the destination the
\* two loaded references are one page: last_write is the copy that stays.
commit(table, loaded, call_pages, last_write) ==
    IF loaded[1] = loaded[2]
    THEN [table EXCEPT ![loaded[1] + 1] = call_pages[last_write]]
    ELSE [table EXCEPT ![loaded[1] + 1] = call_pages[1],
                       ![loaded[2] + 1] = call_pages[2]]

conserved(pre_pages, call_pages, contract) ==
    LET pre_call_total_spendable == total_spendable(pre_pages, contract)
        pre_call_total_unspendable == total_unspendable(pre_pages, contract)
        pre_call_total == wrapping_add(pre_call_total_spendable, pre_call_total_unspendable)
        after_call_total_spendable == total_spendable(call_pages, contract)
        after_call_total_unspendable == total_unspendable(call_pages, contract)
        after_call_total == wrapping_add(after_call_total_spendable,
                                         after_call_total_unspendable)
    IN  /\ after_call_total = pre_call_total
        /\ after_call_total_spendable = pre_call_total_spendable

\* the writes of the method land on the loaded pages themselves
par_execute_call_in_place(table, tx, maybe_pages, last_write) ==
    IF maybe_pages = None THEN [page_table |-> table, outcome |-> "skipped"]
    ELSE LET loaded == maybe_pages[1]
             spent == spend_fee(table, loaded, tx)
             loaded_pages == <<spent[loaded[1] + 1], spent[loaded[2] + 1]>>
             call_pages == dispatch(tx, loaded_pages)
         IN  IF dispatch_panics(tx)
             THEN [page_table |-> spent, outcome |-> "panicked"]
             ELSE [page_table |-> commit(spent, loaded, call_pages, last_write),
                   outcome |-> IF conserved(loaded_pages, call_pages, tx.contract)
                               THEN "committed" ELSE "discarded"]

\* the closure of par_execute for one call; a panic in the method unwinds out
\* of par_execute with the fee spent
par_execute_call(table, tx, maybe_pages, last_write) ==
    IF maybe_pages = None THEN [page_table |-> table, outcome |-> "skipped"]
    ELSE LET loaded == maybe_pages[1]
             spent == spend_fee(table, loaded, tx)
             loaded_pages == <<spent[loaded[1] + 1], spent[loaded[2] + 1]>>
             call_pages == dispatch(tx, loaded_pages)
         IN  IF dispatch_panics(tx)
             THEN [page_table |-> spent, outcome |-> "panicked"]
             ELSE IF conserved(loaded_pages, call_pages, tx.contract)
             THEN [page_table |-> commit(spent, loaded, call_pages, last_write),
                   outcome |-> "committed"]
             ELSE [page_table |-> spent, outcome |-> "discarded"]

(***************************************************************************)
(* The pipeline: a worker takes a batch through the six stages             *)
(***************************************************************************)
NoBatch ==
    [packet |-> <<>>, stage |-> "empty", acquired |-> <<>>, from_pages |-> <<>>,
     to_pages |-> <<>>, loaded |-> <<>>, executed |-> {}, balance_before |-> 0]

NoExec == [worker |-> 0, call |-> 0, outcome |-> "none"]

RECURSIVE total_balance(_)
total_balance(table) ==
    IF table = <<>> THEN 0 ELSE table[1].balance + total_balance(Tail(table))

\* the read lock of allocated_pages is held by a worker inside load_and_execute
read_locked == \E w \in DOMAIN batches : batches[w].stage = "executing"

AcquireMemoryLock(w, packet) ==
    /\ batches[w].stage \in {"empty", "released"}
    /\ LET r == acquire_memory_lock(mem_locks, packet, <<>>) IN
        /\ mem_locks' = r.mem_locks
        /\ batches' = [batches EXCEPT ![w] =
              [packet |-> packet, stage |-> "acquired", acquired |-> r.acquired_memory,
               from_pages |-> [i \in 1..Len(packet) |-> None],
               to_pages |-> [i \in 1..Len(packet) |-> None],
               loaded |-> [i \in 1..Len(packet) |-> None],
               executed |-> {}, balance_before |-> total_balance(page_table)]]
    /\ exec' = NoExec
    /\ UNCHANGED <<page_table, allocated_pages>>
    /\ UNCHANGED tower_vars

ValidateDebits(w) ==
    /\ batches[w].stage = "acquired"
    /\ LET b == batches[w]
           r == validate_debits(page_table, allocated_pages, b.packet, b.acquired)
       IN  batches' = [batches EXCEPT ![w].from_pages = r.from_pages,
                                      ![w].stage = IF r.panicked THEN "panicked"
                                                   ELSE "validated"]
    /\ exec' = NoExec
    /\ UNCHANGED <<page_table, allocated_pages, mem_locks>>
    /\ UNCHANGED tower_vars

FindNewKeys(w) ==
    /\ batches[w].stage = "validated"
    /\ LET b == batches[w] IN
       batches' = [batches EXCEPT
                      ![w].to_pages = find_new_keys(allocated_pages, b.packet, b.from_pages),
                      ![w].stage = "found"]
    /\ exec' = NoExec
    /\ UNCHANGED <<page_table, allocated_pages, mem_locks>>
    /\ UNCHANGED tower_vars

\* takes the write lock of allocated_pages
AllocateKeys(w) ==
    /\ batches[w].stage = "found"
    /\ ~read_locked
    /\ LET b == batches[w]
           r == allocate_keys([page_table |-> page_table,
                               allocated_pages |-> allocated_pages],
                              b.packet, b.from_pages, b.to_pages, 1)
       IN  /\ page_table' = r.page_table
           /\ allocated_pages' = r.allocated_pages
           /\ batches' = [batches EXCEPT ![w].to_pages = r.to_pages,
                                         ![w].stage = IF r.panicked THEN "panicked"
                                                      ELSE "allocated"]
    /\ exec' = NoExec
    /\ UNCHANGED mem_locks
    /\ UNCHANGED tower_vars

\* load_and_execute takes the read lock and loads the pages ...
LoadPages(w) ==
    /\ batches[w].stage = "allocated"
    /\ LET b == batches[w] IN
       batches' = [batches EXCEPT
                      ![w].loaded = load_pages(b.packet, b.from_pages, b.to_pages),
                      ![w].stage = "executing"]
    /\ exec' = NoExec
    /\ UNCHANGED <<page_table, allocated_pages, mem_locks>>
    /\ UNCHANGED tower_vars

\* ... and par_execute runs the calls in parallel, each call in one step; it
\* returns when every call has run.  A panic in a call ends the worker's run
\* through the stages: nothing catches it and no later stage is called.
ParExecute(w, i, last_write) ==
    /\ batches[w].stage = "executing"
    /\ i \in (1..Len(batches[w].packet)) \ batches[w].executed
    /\ LET b == batches[w]
           r == par_execute_call(page_table, b.packet[i], b.loaded[i], last_write)
           executed == b.executed \cup {i}
       IN  /\ page_table' = r.page_table
           /\ exec' = [worker |-> w, call |-> i, outcome |-> r.outcome]
           /\ batches' = [batches EXCEPT
                  ![w].executed = executed,
                  ![w].stage = IF r.outcome = "panicked" THEN "panicked"
                               ELSE IF executed = 1..Len(b.packet) THEN "executed"
                               ELSE "executing"]
    /\ UNCHANGED <<allocated_pages, mem_locks>>
    /\ UNCHANGED tower_vars

ReleaseMemoryLock(w) ==
    /\ batches[w].stage = "executed"
    /\ mem_locks' = release_memory_lock(mem_locks, batches[w].packet, batches[w].acquired)
    /\ batches' = [batches EXCEPT ![w] =
          [NoBatch EXCEPT !.packet = batches[w].packet, !.stage = "released",
                          !.balance_before = batches[w].balance_before]]
    /\ exec' = NoExec
    /\ UNCHANGED <<page_table, allocated_pages>>
    /\ UNCHANGED tower_vars

PageIdle ==
    /\ page_table = <<>>
    /\ allocated_pages = AllocatedPages_new
    /\ mem_locks = {}
    /\ batches = <<>>
    /\ exec = NoExec

(***************************************************************************)
(* Inputs of the tower specification                                       *)
(***************************************************************************)
NewestSlot(vs) == IF vs.votes = <<>> THEN 0 ELSE Last(vs.votes).slot

\* slots 0 and newest .. newest + MaxJump: an old slot, the newest slot again,
\* slots that expire nothing and slots that expire one or several votes
SlotInputs(vs) == {0} \cup {NewestSlot(vs) + d : d \in 0..MaxJump}

Epochs == 0..MaxEpoch

\* the tower after votes on slots 0 .. n-1 (no vote expires on the way)
Prefilled(n) == process_slots(VoteState_default, [k \in 1..n |-> k - 1], 0)

\* the tower after votes on slots 0, 2, .. 2 * (n-1), as test_vote_lockout
\* builds it
PrefilledEven(n) ==
    process_slots(VoteState_default, [k \in 1..n |-> INITIAL_LOCKOUT * (k - 1)], 0)


(***************************************************************************)
(* The tower: VoteState::process_slot and process_vote_unchecked from a    *)
(* default VoteState                                                       *)
(***************************************************************************)
InitTower ==
    /\ vote_state \in {Prefilled(n) : n \in 0..(MAX_LOCKOUT_HISTORY + MaxPrefillOver)}
                        \cup {PrefilledEven(MAX_LOCKOUT_HISTORY)}
    /\ lamports = 0
    /\ to_lamports = 0
    /\ op = "init"
    /\ ret = "Ok"
    /\ arg = <<>>
    /\ expired = FALSE
    /\ steps = 0
    /\ PageIdle

ProcessSlot(slot, epoch) ==
    /\ vote_state' = process_slot(vote_state, slot, epoch)
    /\ expired' = (expired \/ drops_expired(vote_state, slot))
    /\ op' = "process_slot"
    /\ ret' = "Ok"
    /\ arg' = [slot |-> slot, epoch |-> epoch]
    /\ steps' = steps + 1
    /\ UNCHANGED <<lamports, to_lamports>>
    /\ UNCHANGED page_vars

ProcessVoteUnchecked(slots) ==
    /\ LET vote == [slots |-> slots, hash |-> 0, timestamp |-> None] IN
       /\ vote_state' = process_vote_unchecked(vote_state, vote)
       /\ expired' = (expired \/
                       (vote_state' /= vote_state
                        /\ any_drops_expired(vote_state, slots, current_epoch(vote_state))))
    /\ op' = "process_vote_unchecked"
    /\ ret' = "Ok"
    /\ arg' = <<>>
    /\ steps' = steps + 1
    /\ UNCHANGED <<lamports, to_lamports>>
    /\ UNCHANGED page_vars

\* MaxSteps operations are applied
NextTower ==
    \/ /\ steps < MaxSteps
       /\ \E slot \in SlotInputs(vote_state), epoch \in Epochs : ProcessSlot(slot, epoch)
    \/ /\ steps < MaxSteps
       /\ \E s1 \in SlotInputs(vote_state), s2 \in SlotInputs(vote_state) :
             ProcessVoteUnchecked(<<s1, s2>>)

SpecTower == InitTower /\ [][NextTower]_vars

(***************************************************************************)
(* One vote checked against a slot_hashes witness: VoteState::process_vote *)
(* and the account-level process_vote, applied once to a drawn tower       *)
(***************************************************************************)
Hashes == {0, 1}
Timestamps == {None, Some(-1), Some(0), Some(1)}

\* create_account: an initialised account whose voter and withdrawer are key 1
Account_created ==
    VoteState_new([node_pubkey |-> 1, authorized_voter |-> 1,
                   authorized_withdrawer |-> 1, commission |-> 0],
                  [epoch |-> 0, slot |-> 0])

RECURSIVE SeqsUpTo(_, _)
\* the sequences over S of length at most n
SeqsUpTo(S, n) ==
    IF n = 0 THEN {<<>>}
    ELSE LET shorter == SeqsUpTo(S, n - 1) IN
         shorter \cup {Append(q, x) : q \in shorter, x \in S}

VoteSlots(vs) ==
    LET b == IF NewestSlot(vs) > 0 THEN NewestSlot(vs) - 1 ELSE 0
    IN  {b + d : d \in 0..MaxVoteSlot}

VoteSlotSeqs(vs) == SeqsUpTo(VoteSlots(vs), MaxVoteLen)

\* the slot hashes the bank hands over: newest slot first, no slot twice
Witnesses(vs) ==
    {w \in SeqsUpTo(VoteSlots(vs) \X Hashes, MaxVoteLen) :
        \A k \in 1..(Len(w) - 1) : w[k][1] > w[k + 1][1]}

\* the witness process_vote_unchecked builds, with hash h
WitnessOf(slots, h) == [k \in 1..Len(slots) |-> <<Reverse(slots)[k], h>>]

InitVote ==
    /\ vote_state \in
         {process_slots(base, [k \in 1..n |-> k - 1], 0) :
            base \in {VoteState_default, Account_created},
            n \in (0..(MaxVoteSlot + 1)) \cup {MAX_LOCKOUT_HISTORY}}
    /\ lamports = 0
    /\ to_lamports = 0
    /\ op = "init"
    /\ ret = "Ok"
    /\ arg = <<>>
    /\ expired = FALSE
    /\ steps = 0
    /\ PageIdle

\* VoteState::process_vote applied to the state itself (the Tower, the tests)
VoteStateProcessVote(vote, slot_hashes, epoch) ==
    /\ LET r == VoteState_process_vote(vote_state, vote, slot_hashes, epoch) IN
       /\ vote_state' = r.vs
       /\ ret' = r.ret
       /\ expired' = (r.ret = "Ok" /\ any_drops_expired(vote_state, vote.slots, epoch))
    /\ op' = "VoteState::process_vote"
    /\ arg' = [slots |-> vote.slots, hash |-> vote.hash, timestamp |-> vote.timestamp,
               slot_hashes |-> slot_hashes, epoch |-> epoch]
    /\ steps' = steps + 1
    /\ UNCHANGED <<lamports, to_lamports>>
    /\ UNCHANGED page_vars

\* the account-level process_vote
ProcessVote(slot_hashes, clock, vote, signers) ==
    /\ LET r == process_vote(vote_state, slot_hashes, clock, vote, signers) IN
       /\ vote_state' = r.vs
       /\ ret' = r.ret
       /\ expired' = (r.ret = "Ok" /\ any_drops_expired(vote_state, vote.slots, clock.epoch))
    /\ op' = "process_vote"
    /\ arg' = [slots |-> vote.slots, hash |-> vote.hash, timestamp |-> vote.timestamp,
               slot_hashes |-> slot_hashes, epoch |-> clock.epoch, signers |-> signers]
    /\ steps' = steps + 1
    /\ UNCHANGED <<lamports, to_lamports>>
    /\ UNCHANGED page_vars

\* one vote is applied
NextVote ==
    \/ /\ steps = 0
       /\ \E slots \in VoteSlotSeqs(vote_state),
             slot_hashes \in Witnesses(vote_state), epoch \in Epochs :
             VoteStateProcessVote([slots |-> slots, hash |-> 1, timestamp |-> None],
                                  slot_hashes, epoch)
    \/ /\ steps = 0
       /\ \E slots \in VoteSlotSeqs(vote_state), h \in Hashes, ts \in Timestamps,
             wh \in Hashes, cut \in 0..1, signers \in {{}, {1}}, epoch \in Epochs :
             ProcessVote(SubSeq(WitnessOf(slots, wh), 1, Len(slots) * cut),
                         [epoch |-> epoch, slot |-> 0],
                         [slots |-> slots, hash |-> h, timestamp |-> ts],
                         signers)

SpecVote == InitVote /\ [][NextVote]_vars

(***************************************************************************)
(* A vote account under the operations of the vote program                 *)
(***************************************************************************)
Pubkeys == {Pubkey_default, 1, 2}
Signers == {{1}, {2}}
Clocks == {[epoch |-> e, slot |-> 0] : e \in Epochs}
SlashSlots == 0..MaxSlashSlot
SlotHistories == {{}, {1}}

\* the transactions handed to slash_state: a good one, and one fault in each
Transactions(signers, vote_slots) ==
    LET vote == [slots |-> vote_slots, hash |-> 0, timestamp |-> None]
        good == [verify_refs |-> TRUE, verify |-> TRUE, signers |-> signers,
                 instructions |-> <<[program_id |-> 1, vote |-> Some(vote), key |-> 1]>>]
    IN  {good,
         [good EXCEPT !.verify_refs = FALSE],
         [good EXCEPT !.verify = FALSE],
         [good EXCEPT !.instructions = <<[program_id |-> 2, vote |-> Some(vote), key |-> 1]>>],
         [good EXCEPT !.instructions = <<[program_id |-> 1, vote |-> None, key |-> 1]>>],
         [good EXCEPT !.instructions = <<[program_id |-> 1, vote |-> Some(vote), key |-> 2]>>]}

\* after create_account, with no vote or with votes on slots 0 and 2
InitAccount ==
    /\ vote_state \in {Account_created, process_slots(Account_created, <<0, 2>>, 0)}
    /\ lamports = 0
    /\ to_lamports = 0
    /\ op = "init"
    /\ ret = "Ok"
    /\ arg = <<>>
    /\ expired = FALSE
    /\ steps = 0
    /\ PageIdle

\* an operation on the stored state that returns a result
Stores(name, r) ==
    /\ vote_state' = r.vs
    /\ op' = name
    /\ ret' = r.ret
    /\ arg' = <<>>
    /\ steps' = steps + 1
    /\ UNCHANGED <<lamports, to_lamports, expired>>
    /\ UNCHANGED page_vars

ProcessTimestamp(slot, timestamp) ==
    /\ LET r == process_timestamp(vote_state, slot, timestamp) IN
       /\ vote_state' = r.vs
       /\ ret' = r.ret
    /\ op' = "process_timestamp"
    /\ arg' = [slot |-> slot, timestamp |-> timestamp]
    /\ steps' = steps + 1
    /\ UNCHANGED <<lamports, to_lamports, expired>>
    /\ UNCHANGED page_vars

Authorize(authorized, vote_authorize, signers, clock) ==
    /\ LET r == authorize(vote_state, authorized, vote_authorize, signers, clock) IN
       /\ vote_state' = r.vs
       /\ ret' = r.ret
    /\ op' = "authorize"
    /\ arg' = [authorized |-> authorized, vote_authorize |-> vote_authorize,
               signers |-> signers, epoch |-> clock.epoch]
    /\ steps' = steps + 1
    /\ UNCHANGED <<lamports, to_lamports, expired>>
    /\ UNCHANGED page_vars

UpdateNode(node_pubkey, signers) ==
    /\ LET r == update_node(vote_state, node_pubkey, signers) IN
       /\ vote_state' = r.vs
       /\ ret' = r.ret
    /\ op' = "update_node"
    /\ arg' = [node_pubkey |-> node_pubkey, signers |-> signers]
    /\ steps' = steps + 1
    /\ UNCHANGED <<lamports, to_lamports, expired>>
    /\ UNCHANGED page_vars

Withdraw(amount, signers) ==
    /\ LET r == withdraw(vote_state, lamports, to_lamports, amount, signers) IN
       /\ lamports' = r.lamports
       /\ to_lamports' = r.to_lamports
       /\ ret' = r.ret
    /\ op' = "withdraw"
    /\ arg' = [lamports |-> amount, signers |-> signers]
    /\ steps' = steps + 1
    /\ UNCHANGED <<vote_state, expired>>
    /\ UNCHANGED page_vars

InitializeAccount(vote_init, clock) ==
    Stores("initialize_account", initialize_account(vote_state, vote_init, clock))

SlashState(slot_history, tx) ==
    Stores("slash_state", slash_state(vote_state, slot_history, 1, tx))

Slash(slot_history, slashable_slot) ==
    /\ vote_state' = slash(vote_state, slot_history, slashable_slot)
    /\ op' = "slash"
    /\ ret' = "Ok"
    /\ arg' = [slot_history |-> slot_history, slashable_slot |-> slashable_slot]
    /\ steps' = steps + 1
    /\ UNCHANGED <<lamports, to_lamports, expired>>
    /\ UNCHANGED page_vars

\* MaxOps operations are applied
NextAccount ==
    \/ /\ steps < MaxOps
       /\ \E d \in {1, 3}, ts \in {None, Some(1)}, signers \in Signers, clock \in Clocks :
             LET vote == [slots |-> <<NewestSlot(vote_state) + d>>, hash |-> 0,
                          timestamp |-> ts]
             IN  ProcessVote(WitnessOf(vote.slots, 0), clock, vote, signers)
    \/ /\ steps < MaxOps
       /\ \E d \in {1, 3}, epoch \in Epochs : ProcessSlot(NewestSlot(vote_state) + d, epoch)
    \/ /\ steps < MaxOps
       /\ \E slot \in 0..1, timestamp \in 0..1 : ProcessTimestamp(slot, timestamp)
    \/ /\ steps < MaxOps
       /\ \E authorized \in Pubkeys, vote_authorize \in {"Voter", "Withdrawer"},
             signers \in Signers, clock \in Clocks :
             Authorize(authorized, vote_authorize, signers, clock)
    \/ /\ steps < MaxOps
       /\ \E node_pubkey \in {1, 2}, signers \in Signers : UpdateNode(node_pubkey, signers)
    \/ /\ steps < MaxOps
       /\ \E slot_history \in SlotHistories, slashable_slot \in SlashSlots :
             Slash(slot_history, slashable_slot)
    \/ /\ steps < MaxOps
       /\ \E slot_history \in SlotHistories, signers \in Signers,
             vote_slots \in {<<1>>, <<3, 1>>} :
             \E tx \in Transactions(signers, vote_slots) : SlashState(slot_history, tx)
    \/ /\ steps < MaxOps
       /\ \E voter \in {1, 2}, clock \in Clocks :
             InitializeAccount([node_pubkey |-> voter, authorized_voter |-> voter,
                                authorized_withdrawer |-> voter, commission |-> 0],
                               clock)

SpecAccount == InitAccount /\ [][NextAccount]_vars

(***************************************************************************)
(* Slashing a tower: VoteState::slash between votes, on towers with and    *)
(* without a root                                                          *)
(***************************************************************************)
\* towers of up to MaxSlashSlot votes, and the full tower above its first root
InitSlash ==
    /\ vote_state \in {Prefilled(n) : n \in (0..MaxSlashSlot) \cup {MAX_LOCKOUT_HISTORY + 1}}
    /\ lamports = 0
    /\ to_lamports = 0
    /\ op = "init"
    /\ ret = "Ok"
    /\ arg = <<>>
    /\ expired = FALSE
    /\ steps = 0
    /\ PageIdle

\* the slots handed to slash: the first slots, and the slots around the newest
\* vote
SlashInputs(vs) ==
    SlashSlots \cup {NewestSlot(vs) + 1} \cup {NewestSlot(vs) - d : d \in {0, 1} \cap 0..NewestSlot(vs)}

NextSlash ==
    \/ /\ steps < MaxOps
       /\ \E slot_history \in SlotHistories, slashable_slot \in SlashInputs(vote_state) :
             Slash(slot_history, slashable_slot)
    \/ /\ steps < MaxOps
       /\ \E d \in {1, 3} : ProcessSlot(NewestSlot(vote_state) + d, 0)

SpecSlash == InitSlash /\ [][NextSlash]_vars

(***************************************************************************)
(* Authorities: the operations that ask for the voter's or the             *)
(* withdrawer's signature, on an account whose voter is key 1 and whose    *)
(* withdrawer is key 2                                                     *)
(***************************************************************************)
InitAuthority ==
    /\ vote_state = VoteState_new([node_pubkey |-> 1, authorized_voter |-> 1,
                                   authorized_withdrawer |-> 2, commission |-> 0],
                                  [epoch |-> 0, slot |-> 0])
    /\ lamports = 1
    /\ to_lamports = 0
    /\ op = "init"
    /\ ret = "Ok"
    /\ arg = <<>>
    /\ expired = FALSE
    /\ steps = 0
    /\ PageIdle

\* nobody, one of the two keys, or both have signed
AuthoritySigners == SUBSET {1, 2}

NextAuthority ==
    \/ /\ steps < MaxOps
       /\ \E authorized \in Pubkeys, vote_authorize \in {"Voter", "Withdrawer"},
             signers \in AuthoritySigners, clock \in Clocks :
             Authorize(authorized, vote_authorize, signers, clock)
    \/ /\ steps < MaxOps
       /\ \E signers \in AuthoritySigners : UpdateNode(2, signers)
    \/ /\ steps < MaxOps
       /\ \E signers \in AuthoritySigners :
             LET vote == [slots |-> <<NewestSlot(vote_state) + 1>>, hash |-> 0,
                          timestamp |-> None]
             IN  ProcessVote(WitnessOf(vote.slots, 0), [epoch |-> 0, slot |-> 0],
                             vote, signers)
    \/ /\ steps < MaxOps
       /\ \E amount \in 0..MaxFee, signers \in AuthoritySigners : Withdraw(amount, signers)

SpecAuthority == InitAuthority /\ [][NextAuthority]_vars

(***************************************************************************)
(* Lockouts: a fresh VoteState under MaxTowerOps calls of process_slot     *)
(***************************************************************************)
InitLockouts ==
    /\ vote_state = VoteState_default
    /\ lamports = 0
    /\ to_lamports = 0
    /\ op = "init"
    /\ ret = "Ok"
    /\ arg = <<>>
    /\ expired = FALSE
    /\ steps = 0
    /\ PageIdle

NextLockouts ==
    /\ steps < MaxTowerOps
    /\ \E slot \in SlotInputs(vote_state) : ProcessSlot(slot, 0)

SpecLockouts == InitLockouts /\ [][NextLockouts]_vars

(***************************************************************************)
(* Timestamps: process_timestamp called directly and through the votes of  *)
(* a fresh account                                                         *)
(***************************************************************************)
InitTimestamp ==
    /\ vote_state = Account_created
    /\ lamports = 0
    /\ to_lamports = 0
    /\ op = "init"
    /\ ret = "Ok"
    /\ arg = <<>>
    /\ expired = FALSE
    /\ steps = 0
    /\ PageIdle

\* slots from 0 and timestamps (i64) from -1
TimestampSlots == 0..MaxVoteSlot
UnixTimestamps == (-1)..MaxVoteSlot

NextTimestamp ==
    \/ /\ steps < MaxOps
       /\ \E slot \in TimestampSlots, timestamp \in UnixTimestamps :
             ProcessTimestamp(slot, timestamp)
    \/ /\ steps < MaxOps
       /\ \E timestamp \in UnixTimestamps, d \in 1..2 :
             LET vote == [slots |-> <<NewestSlot(vote_state) + d>>, hash |-> 0,
                          timestamp |-> Some(timestamp)]
             IN  ProcessVote(WitnessOf(vote.slots, 0), [epoch |-> 0, slot |-> 0],
                             vote, {1})

SpecTimestamp == InitTimestamp /\ [][NextTimestamp]_vars

(***************************************************************************)
(* Credits: increment_credits called directly and through the root         *)
(* promotions of a full tower, over many epochs                            *)
(***************************************************************************)
\* vs after votes on the n slots that follow first, the vote on slot s cast
\* in epoch s - MAX_LOCKOUT_HISTORY
RECURSIVE VotedOn(_, _, _)
VotedOn(vs, first, n) ==
    IF n = 0 THEN vs
    ELSE IF n = 1 THEN process_slot(vs, first, first - MAX_LOCKOUT_HISTORY)
    ELSE LET half == n \div 2
             voted == VotedOn(vs, first, half)
         IN  IF voted.votes = <<>> THEN voted
             ELSE VotedOn(voted, first + half, n - half)

\* a full tower that has then promoted n roots, one in each of the epochs
\* 0 .. n-1
VotedThroughEpochs(n) ==
    VotedOn(Prefilled(MAX_LOCKOUT_HISTORY), MAX_LOCKOUT_HISTORY, n)

\* no credit yet, one epoch of credits, and histories one short of full or full
InitCredits ==
    /\ vote_state \in {VotedThroughEpochs(n) :
                          n \in {0, 1} \cup {MAX_EPOCH_CREDITS_HISTORY - d : d \in 0..MaxEpoch}}
    /\ lamports = 0
    /\ to_lamports = 0
    /\ op = "init"
    /\ ret = "Ok"
    /\ arg = <<>>
    /\ expired = FALSE
    /\ steps = 0
    /\ PageIdle

\* the epoch is an argument of the caller: the first epoch, the epochs around
\* the current one and a later one
CreditEpochs(vs) ==
    {0} \cup {current_epoch(vs) + d : d \in 1..2}
        \cup {current_epoch(vs) - d : d \in (0..MaxEpoch) \cap (0..current_epoch(vs))}

IncrementCredits(epoch) ==
    /\ vote_state' = increment_credits(vote_state, epoch)
    /\ op' = "increment_credits"
    /\ ret' = "Ok"
    /\ arg' = [epoch |-> epoch]
    /\ steps' = steps + 1
    /\ UNCHANGED <<lamports, to_lamports, expired>>
    /\ UNCHANGED page_vars

NextCredits ==
    \/ /\ steps < MaxOps
       /\ \E epoch \in CreditEpochs(vote_state) : IncrementCredits(epoch)
    \/ /\ steps < MaxOps
       /\ \E epoch \in CreditEpochs(vote_state) :
             ProcessSlot(NewestSlot(vote_state) + 1, epoch)
    \/ /\ steps < MaxOps
       /\ \E epoch \in CreditEpochs(vote_state) :
             LET slot == NewestSlot(vote_state) + 1 IN
             VoteStateProcessVote([slots |-> <<slot>>, hash |-> 1, timestamp |-> None],
                                  <<<<slot, 1>>>>, epoch)

SpecCredits == InitCredits /\ [][NextCredits]_vars

(***************************************************************************)
(* Workers taking batches of transfers through the pipeline concurrently   *)
(***************************************************************************)
Keys == 1..MaxKey
Workers == 1..MaxWorkers

\* Call::new_tx with nothing to pay: only the keys differ
Transfer(from, to) ==
    [caller |-> from, destination |-> to, contract |-> DEFAULT_CONTRACT,
     fee |-> 0, amount |-> 0, version |-> 1, method |-> 128, user_data |-> 0]

\* a key sends to itself or to the next key
LockCalls ==
    {Transfer(from, to) : from \in Keys, to \in Keys} 

\* the first worker's batches hold up to MaxBatchLen calls, the batches of
\* each further worker one call less
LockPackets(w) ==
    SeqsUpTo({tx \in LockCalls : tx.destination \in {tx.caller, (tx.caller % MaxKey) + 1}},
             MaxBatchLen + 1 - w) \ {<<>>}

\* every key but the last has a page
LocksGenesis ==
    force_allocate(PageTable_new, [k \in 1..(MaxKey - 1) |-> Transfer(k, k)], TRUE, 1)

TowerIdle ==
    /\ vote_state = VoteState_default
    /\ lamports = 0
    /\ to_lamports = 0
    /\ op = "init"
    /\ ret = "Ok"
    /\ arg = <<>>
    /\ expired = FALSE
    /\ steps = 0

InitLocks ==
    /\ page_table = LocksGenesis.page_table
    /\ allocated_pages = LocksGenesis.allocated_pages
    /\ mem_locks = {}
    /\ batches = [w \in Workers |-> NoBatch]
    /\ exec = NoExec
    /\ TowerIdle

NextLocks ==
    \/ \E w \in Workers : \E packet \in LockPackets(w) : AcquireMemoryLock(w, packet)
    \/ \E w \in Workers : ValidateDebits(w)
    \/ \E w \in Workers : FindNewKeys(w)
    \/ \E w \in Workers : AllocateKeys(w)
    \/ \E w \in Workers : LoadPages(w)
    \/ \E w \in Workers, i \in 1..MaxBatchLen, last_write \in 1..2 : ParExecute(w, i, last_write)
    \/ \E w \in Workers : ReleaseMemoryLock(w)

SpecLocks == InitLocks /\ [][NextLocks]_vars

(***************************************************************************)
(* The pipeline of SpecLocks with AllocatedPages::free: the owner of the   *)
(* page table frees the page of a key under the write lock                  *)
(***************************************************************************)
\* at most MaxFrees pages are freed; steps counts them
Free(key) ==
    /\ steps < MaxFrees
    /\ key \in DOMAIN allocated_pages.allocated
    /\ ~read_locked
    /\ allocated_pages' = free(allocated_pages, key)
    /\ steps' = steps + 1
    /\ exec' = NoExec
    /\ UNCHANGED <<page_table, mem_locks, batches>>
    /\ UNCHANGED <<vote_state, lamports, to_lamports, op, ret, arg, expired>>

\* every worker takes batches of one call
NextAlloc ==
    \/ \E w \in Workers : \E packet \in LockPackets(MaxBatchLen) : AcquireMemoryLock(w, packet)
    \/ \E w \in Workers : ValidateDebits(w)
    \/ \E w \in Workers : FindNewKeys(w)
    \/ \E w \in Workers : AllocateKeys(w)
    \/ \E w \in Workers : LoadPages(w)
    \/ \E w \in Workers, last_write \in 1..2 : ParExecute(w, 1, last_write)
    \/ \E w \in Workers : ReleaseMemoryLock(w)
    \/ \E key \in Keys : Free(key)

SpecAlloc == InitLocks /\ [][NextAlloc]_vars

(***************************************************************************)
(* One worker taking one call through the pipeline, again and again        *)
(***************************************************************************)
\* key 1 calls; it sends to itself or to key 2
PageKeys == {1, 2}
Contracts == {DEFAULT_CONTRACT, 1}
Versions == {0, 1}
Methods == {0, 1, 128, 129}
Balances == 0..(U64_MODULUS - 1)

\* fee is a u64 the caller chooses: small fees and the largest u64
Fees == (0..MaxFee) \cup {U64_MODULUS - 1}

\* the calls; a move_funds call carries in user_data the amount it was
\* validated for (Call::new_tx) or bytes that do not decode (one such call for
\* each fee); the calls of a stale version, which validate_debits rejects
\* whatever else they hold, are move_funds calls, and so are the calls with
\* the largest fee, which send one token
PageCalls ==
    {tx \in [caller : {1}, destination : PageKeys, contract : Contracts,
             fee : Fees, amount : 0..MaxFee, version : Versions,
             method : Methods, user_data : (0..MaxUserData) \cup {BadUserData}] :
        /\ tx.method = 128 => tx.user_data \in {tx.amount, BadUserData}
        /\ tx.user_data = BadUserData => tx.method = 128 /\ tx.fee = tx.amount
        /\ tx.fee > MaxFee => /\ tx.method = 128 /\ tx.contract = DEFAULT_CONTRACT
                              /\ tx.amount = 1 /\ tx.user_data = tx.amount
                              /\ tx.version = 1
        /\ tx.version = 0 => /\ tx.method = 128 /\ tx.contract = DEFAULT_CONTRACT
                             /\ tx.user_data = tx.amount}

\* the table after force_allocate for key 1 and, or not, for key 2
GenesisOf(c1, b1) == force_allocate(PageTable_new, <<[Transfer(1, 1) EXCEPT !.contract = c1]>>, TRUE, b1)
PageGenesis ==
    {GenesisOf(c1, b1) : c1 \in Contracts, b1 \in Balances}
    \cup {force_allocate(GenesisOf(c1, b1), <<[Transfer(1, 2) EXCEPT !.contract = c2]>>, FALSE, b2) :
            c1 \in Contracts, b1 \in Balances, c2 \in Contracts,
            b2 \in {0, U64_MODULUS - 1}}

InitPage ==
    /\ \E g \in PageGenesis :
          /\ page_table = g.page_table
          /\ allocated_pages = g.allocated_pages
    /\ mem_locks = {}
    /\ batches = <<NoBatch>>
    /\ exec = NoExec
    /\ TowerIdle

\* a new call, or the call of the released batch once more
NextPage ==
    \/ \E tx \in PageCalls :
          /\ batches[1].stage = "released" => tx = batches[1].packet[1]
          /\ AcquireMemoryLock(1, <<tx>>)
    \/ ValidateDebits(1)
    \/ FindNewKeys(1)
    \/ AllocateKeys(1)
    \/ LoadPages(1)
    \/ \E last_write \in 1..2 : ParExecute(1, 1, last_write)
    \/ ReleaseMemoryLock(1)

SpecPage == InitPage /\ [][NextPage]_vars

\* the caller of the pipeline calls the stages one after the other: a batch
\* that has left a stage enters the next one
FairPage ==
    /\ WF_vars(ValidateDebits(1))
    /\ WF_vars(FindNewKeys(1))
    /\ WF_vars(AllocateKeys(1))
    /\ WF_vars(LoadPages(1))
    /\ WF_vars(\E last_write \in 1..2 : ParExecute(1, 1, last_write))
    /\ WF_vars(ReleaseMemoryLock(1))

SpecPageFair == SpecPage /\ FairPage

(***************************************************************************)
(* Claims                                                                  *)
(***************************************************************************)
Tower == vote_state.votes

\* C1: in every state reached from a fresh VoteState by process_slot and
\* process_vote calls (expiring votes and promoting roots included) the slots
\* of `votes`, read front to back, are strictly ascending.
C1_VotesStrictlyAscending ==
    \A k \in 1..(Len(Tower) - 1) : Tower[k].slot < Tower[k + 1].slot

\* the case of C1: a tower that has promoted a root and has dropped expired
\* votes, and still holds several votes
C1_Witness ==
    /\ vote_state.root_slot /= None
    /\ expired
    /\ Len(Tower) >= 3

\* C2 as stated: every entry at 0-based position i from the front has
\* confirmation_count <= len(Tower) - i.
C2_Original ==
    \A k \in 1..Len(Tower) : Tower[k].confirmation_count <= Len(Tower) - (k - 1)

\* C2 as amended: as long as no vote has expired, every entry at 0-based
\* position i from the front has confirmation_count <= len(Tower) - i; in every
\* state 1 <= confirmation_count <= MAX_LOCKOUT_HISTORY.
C2_ConfirmationBound ==
    /\ \A k \in 1..Len(Tower) :
          /\ Tower[k].confirmation_count >= 1
          /\ Tower[k].confirmation_count <= MAX_LOCKOUT_HISTORY
    /\ ~expired => C2_Original

\* the case of C2: a full tower that has promoted a root without any expiry,
\* whose oldest entry sits exactly at the bound
C2_Witness ==
    /\ ~expired
    /\ steps > 0
    /\ vote_state.root_slot /= None
    /\ Len(Tower) = MAX_LOCKOUT_HISTORY
    /\ Tower[1].confirmation_count = MAX_LOCKOUT_HISTORY

\* C3: whenever process_vote returns Ok, the slot of the newest (back) entry
\* of `votes` is the largest slot of vote.slots.
C3_NewestIsLargestVoted ==
    (op \in {"VoteState::process_vote", "process_vote"} /\ ret = "Ok")
        => (Tower /= <<>> /\ Last(Tower).slot = SeqMax(arg.slots))

\* the case of C3: an accepted vote of two slots, the older of which was
\* skipped as already voted, on a tower that held votes before
C3_Witness ==
    /\ op = "VoteState::process_vote"
    /\ ret = "Ok"
    /\ Len(arg.slots) = 2
    /\ arg.slots[1] < arg.slots[2]
    /\ Len(Tower) >= 2
    /\ Tower[Len(Tower) - 1].slot >= arg.slots[1]

\* C4: a process_vote step (VoteState::process_vote or the account-level
\* process_vote) that returns an error leaves every field of the stored
\* VoteState as it was.
C4_FailedVoteChangesNothing ==
    [][(op' \in {"VoteState::process_vote", "process_vote"} /\ ret' /= "Ok")
          => vote_state' = vote_state]_vars

\* the case of C4: the account-level process_vote has applied the slots to its
\* working copy and then failed on the timestamp
C4_Witness ==
    /\ op = "process_vote"
    /\ ret = "TimestampTooOld"
    /\ arg.timestamp /= None
    /\ SeqMax(arg.slots) > NewestSlot(vote_state)

\* C12: a process_slot call that, after dropping expired votes, finds the
\* stack at MAX_LOCKOUT_HISTORY entries pops the oldest entry, sets root_slot
\* to that entry's slot and increases credits() by exactly one, the stack
\* staying at MAX_LOCKOUT_HISTORY entries; a process_slot call that does not
\* find the stack full leaves root_slot and credits() unchanged.
C12_FullStackPromotesRoot ==
    [][op' = "process_slot" =>
          LET slot == arg'.slot
              left == pop_expired_votes(Tower, slot)
          IN  IF ~is_old_slot(vote_state, slot) /\ Len(left) = MAX_LOCKOUT_HISTORY
              THEN /\ vote_state'.root_slot = Some(left[1].slot)
                   /\ credits(vote_state') = credits(vote_state) + 1
                   /\ Len(Tower') = MAX_LOCKOUT_HISTORY
                   /\ [k \in 1..(MAX_LOCKOUT_HISTORY - 1) |-> Tower'[k].slot]
                         = [k \in 1..(MAX_LOCKOUT_HISTORY - 1) |-> left[k + 1].slot]
              ELSE /\ vote_state'.root_slot = vote_state.root_slot
                   /\ credits(vote_state') = credits(vote_state)]_vars

\* the example of C12: 31 votes on slots 0, 2, .. 60 followed by slot 62 give
\* root_slot = Some(0), 31 votes and credits = 1
C12_Witness ==
    /\ op = "process_slot"
    /\ steps = 1
    /\ arg.slot = INITIAL_LOCKOUT * MAX_LOCKOUT_HISTORY
    /\ Tower[1].slot = INITIAL_LOCKOUT
    /\ vote_state.root_slot = Some(0)
    /\ Len(Tower) = MAX_LOCKOUT_HISTORY
    /\ credits(vote_state) = 1

\* C13: in every state reached from a fresh VoteState by process_slot and
\* process_vote calls, root_slot, if present, is strictly less than the slot
\* of every entry of `votes`.
C13_RootBelowVotes ==
    vote_state.root_slot /= None =>
        \A k \in 1..Len(Tower) : vote_state.root_slot[1] < Tower[k].slot

\* the case of C13: a root was promoted by a call, the oldest vote left is the
\* slot right above it, and a later call has dropped expired votes
C13_Witness ==
    /\ steps = MaxSteps
    /\ vote_state.root_slot /= None
    /\ expired
    /\ Len(Tower) < MAX_LOCKOUT_HISTORY
    /\ Tower[1].slot = vote_state.root_slot[1] + 1

\* C14: over any sequence of process_slot and process_vote calls root_slot
\* never goes from Some back to None and never decreases, and each root
\* promotion (a process_slot call that finds the stack full) sets it to a
\* strictly larger slot than before.
C14_RootOnlyIncreases ==
    [][/\ vote_state.root_slot /= None =>
              /\ vote_state'.root_slot /= None
              /\ vote_state'.root_slot[1] >= vote_state.root_slot[1]
       /\ (/\ op' = "process_slot"
           /\ ~is_old_slot(vote_state, arg'.slot)
           /\ Len(pop_expired_votes(Tower, arg'.slot)) = MAX_LOCKOUT_HISTORY
           /\ vote_state.root_slot /= None)
              => vote_state'.root_slot[1] > vote_state.root_slot[1]]_vars

\* the case of C14: two promotions in a row on a tower that had a root, the
\* second by a process_slot call
C14_Witness ==
    /\ steps = 2
    /\ op = "process_slot"
    /\ credits(vote_state) >= 4
    /\ Len(Tower) = MAX_LOCKOUT_HISTORY
    /\ vote_state.root_slot /= None

\* C15: in every state reached from a fresh VoteState by process_slot and
\* process_vote calls len(votes) <= MAX_LOCKOUT_HISTORY, and after a
\* process_slot call the stack is not empty.
C15_StackBounded ==
    /\ Len(Tower) <= MAX_LOCKOUT_HISTORY
    /\ op = "process_slot" => Tower /= <<>>

\* the case of C15: a process_slot call found the stack full and left it full
C15_Witness ==
    /\ op = "process_slot"
    /\ Len(Tower) = MAX_LOCKOUT_HISTORY
    /\ Tower[Len(Tower)].slot = arg.slot
    /\ vote_state.root_slot /= None
    /\ ~expired

\* C18: process_slot(slot, epoch) with slot <= the slot of the newest existing
\* vote changes nothing in the VoteState; hence process_slot(s) applied once
\* more after process_slot(s) leaves the state as it is.
C18_OldSlotIsNoOp ==
    [][op' = "process_slot" =>
          /\ is_old_slot(vote_state, arg'.slot) => vote_state' = vote_state
          /\ \A epoch \in Epochs :
                 process_slot(vote_state', arg'.slot, epoch) = vote_state']_vars

\* the case of C18: process_slot was called with the slot of the newest vote
\* of a tower of several votes, right after the call that pushed it
C18_Witness ==
    /\ steps = 2
    /\ op = "process_slot"
    /\ Len(Tower) >= 2
    /\ arg.slot = Last(Tower).slot
    /\ Last(Tower).confirmation_count = 1

\* the vote and the witness of the last step
ArgVote(a) == [slots |-> a.slots, hash |-> a.hash, timestamp |-> a.timestamp]

\* C16: for a vote with non-empty slots VoteState::process_vote returns
\* VoteTooOld if and only if the slot_hashes witness is empty or every slot of
\* vote.slots is <= the slot of the newest existing vote; the vote that was
\* just accepted, submitted again against the same witness, gets VoteTooOld;
\* a vote with empty slots gets EmptySlots whatever the witness.
C16_VoteTooOldExactly ==
    [][op' = "VoteState::process_vote" =>
          /\ arg'.slots = <<>> <=> ret' = "EmptySlots"
          /\ arg'.slots /= <<>> =>
                (ret' = "VoteTooOld" <=>
                    \/ arg'.slot_hashes = <<>>
                    \/ /\ Tower /= <<>>
                       /\ \A k \in 1..Len(arg'.slots) : arg'.slots[k] <= Last(Tower).slot)
          /\ ret' = "Ok" =>
                VoteState_process_vote(vote_state', ArgVote(arg'), arg'.slot_hashes,
                                       arg'.epoch).ret = "VoteTooOld"]_vars

\* the case of C16: a vote that names an old and a new slot was accepted on a
\* tower with votes, against a witness of two entries
C16_Witness ==
    /\ op = "VoteState::process_vote"
    /\ ret = "Ok"
    /\ Len(arg.slot_hashes) = 2
    /\ Len(arg.slots) = 2
    /\ Len(Tower) >= 3
    /\ \E k \in 1..2 : arg.slots[k] < Last(Tower).slot

\* the slots of a vote that are above the newest existing vote, in the vote's
\* order
NewSlots(vs, slots) == SelectSeq(slots, LAMBDA slot : ~is_old_slot(vs, slot))

\* new slots matched one after the other against the witness w read from
\* position `from` on: the position of the last match, 0 when a slot is not
\* found
RECURSIVE MatchedAt(_, _, _)
MatchedAt(new, w, from) ==
    IF new = <<>> THEN from - 1
    ELSE IF from > Len(w) THEN 0
    ELSE IF w[from][1] = new[1] THEN MatchedAt(Tail(new), w, from + 1)
    ELSE MatchedAt(new, w, from + 1)

\* C17 (as stated): for a vote that is not VoteTooOld, slots <= the newest
\* existing vote are skipped wherever they occur; if the new slots occur, in
\* the vote's order, among the witness slots read oldest to newest, the result
\* is Ok when the witness hash at the last matched slot equals vote.hash and
\* SlotHashMismatch otherwise; if some new slot is absent from the witness the
\* result is SlotsMismatch.
C17_OldSlotsSkippedAnywhere ==
    [][(op' = "VoteState::process_vote" /\ ret' \notin {"EmptySlots", "VoteTooOld"}) =>
          LET new == NewSlots(vote_state, arg'.slots)
              w == Reverse(arg'.slot_hashes)
              m == MatchedAt(new, w, 1)
          IN  /\ m > 0 => ret' = IF w[m][2] = arg'.hash THEN "Ok" ELSE "SlotHashMismatch"
              /\ (\E k \in 1..Len(new) : \A q \in 1..Len(w) : w[q][1] /= new[k])
                    => ret' = "SlotsMismatch"]_vars

\* C17 (as amended): old slots are skipped only while witness entries remain
\* unread.  If the new slots occur, in the vote's order, among the witness
\* slots read oldest to newest, the result is Ok when the witness hash at the
\* last matched slot equals vote.hash and SlotHashMismatch otherwise, unless
\* the last match is the newest witness entry and vote.slots ends with an old
\* slot: then the result is SlotsMismatch.  If the new slots do not occur in
\* that order (absent, out of order or repeated) the result is SlotsMismatch.
C17_OldSlotsSkippedWhileWitnessLeft ==
    [][(op' = "VoteState::process_vote" /\ ret' \notin {"EmptySlots", "VoteTooOld"}) =>
          LET new == NewSlots(vote_state, arg'.slots)
              w == Reverse(arg'.slot_hashes)
              m == MatchedAt(new, w, 1)
          IN  ret' = IF m = 0 THEN "SlotsMismatch"
                     ELSE IF m = Len(w) /\ is_old_slot(vote_state, Last(arg'.slots))
                     THEN "SlotsMismatch"
                     ELSE IF w[m][2] = arg'.hash THEN "Ok"
                     ELSE "SlotHashMismatch"]_vars

\* the case of C17: a vote whose new slot matches the newest witness entry and
\* whose last slot is old was refused with SlotsMismatch
C17_Witness ==
    /\ op = "VoteState::process_vote"
    /\ ret = "SlotsMismatch"
    /\ Len(arg.slots) = 2
    /\ ~is_old_slot(vote_state, arg.slots[1])
    /\ is_old_slot(vote_state, arg.slots[2])
    /\ arg.slot_hashes /= <<>>
    /\ arg.slot_hashes[1] = <<arg.slots[1], arg.hash>>

(***************************************************************************)
(* Slashing                                                                *)
(***************************************************************************)
SlashingOps ==
    {"process_vote", "process_slot", "process_timestamp", "authorize", "update_node",
     "slash", "slash_state"}

\* C10: slashing is latching: no step of process_vote, process_slot,
\* process_timestamp, authorize, update_node, slash or slash_state takes a
\* vote state with has_been_slashed true to one where it is false.
C10_SlashingLatches ==
    [][(op' \in SlashingOps /\ vote_state.has_been_slashed)
          => vote_state'.has_been_slashed]_vars

\* a slashed state on which slash has just run with a slot that is not
\* slashable: only the earlier flag keeps it slashed
C10_Witness ==
    /\ vote_state.has_been_slashed
    /\ op = "slash"
    /\ arg.slot_history = {}
    /\ slashable_slots(vote_state, <<arg.slashable_slot>>) = {}

\* the candidate slot lists handed to slashable_slots: one or two slots around
\* the newest vote
Candidates(vs) ==
    SeqsUpTo({0, NewestSlot(vs) + 1} \cup {NewestSlot(vs) - d : d \in {0, 1} \cap 0..NewestSlot(vs)},
             2) \ {<<>>}

\* C11: no slash when the candidate is consistent with the tower: in every
\* reachable state s, slashable_slots(s.slots()) is empty, and
\* slashable_slots(candidates) is empty whenever the newest vote slot of s is
\* <= the last candidate slot; and a slash step for a slot >= the newest vote
\* leaves has_been_slashed as it was.
C11_NoSlashWhenConsistent ==
    /\ [](/\ slashable_slots(vote_state, VoteState_slots(vote_state)) = {}
          /\ \A candidates \in Candidates(vote_state) :
                 NewestSlot(vote_state) <= Last(candidates)
                     => slashable_slots(vote_state, candidates) = {})
    /\ [][(op' = "slash" /\ arg'.slashable_slot >= NewestSlot(vote_state))
              => vote_state'.has_been_slashed = vote_state.has_been_slashed]_vars

\* slash has run, outside the slot history, for the slot of the newest vote of
\* a tower that holds a root and older votes the candidate does not name, and
\* the state is not slashed
C11_Witness ==
    /\ op = "slash"
    /\ arg.slot_history = {}
    /\ vote_state.root_slot /= None
    /\ Len(Tower) >= 2
    /\ arg.slashable_slot = NewestSlot(vote_state)
    /\ ~vote_state.has_been_slashed

(***************************************************************************)
(* Page engine                                                             *)
(***************************************************************************)
\* call i of worker w's batch has acquired the memory lock and is not released
Held(w, i) ==
    /\ batches[w].stage \notin {"empty", "released"}
    /\ i \in 1..Len(batches[w].packet)
    /\ batches[w].acquired[i]

CallKeys(w, i) == {batches[w].packet[i].caller, batches[w].packet[i].destination}

\* the pages call i of worker w reaches while its batch is in load_and_execute
Reached(w, i) ==
    IF batches[w].stage = "executing" /\ i \in 1..Len(batches[w].packet)
       /\ batches[w].loaded[i] /= None
    THEN {batches[w].loaded[i][1][1], batches[w].loaded[i][1][2]}
    ELSE {}

CallsInFlight == {c \in (DOMAIN batches) \X (1..MaxBatchLen) : Held(c[1], c[2])}

\* C5: at every moment the key sets of the calls that have acquired the
\* memory lock and are not yet released are pairwise disjoint, within a batch
\* and across the batches in flight, the locked set is exactly their union,
\* and no page is reached by two calls during load_and_execute.
C5_HeldKeySetsDisjoint ==
    /\ \A c, d \in CallsInFlight :
          c /= d => /\ CallKeys(c[1], c[2]) \cap CallKeys(d[1], d[2]) = {}
                    /\ Reached(c[1], c[2]) \cap Reached(d[1], d[2]) = {}
    /\ mem_locks = UNION {CallKeys(c[1], c[2]) : c \in CallsInFlight}

\* two batches are inside load_and_execute at once, each with a call that holds
\* its keys and has its pages loaded, and one of them with a call that was
\* refused the lock
C5_Witness ==
    /\ batches[1].stage = "executing" /\ batches[2].stage = "executing"
    /\ Reached(1, 1) /= {} /\ Reached(2, 1) /= {}
    /\ Len(batches[1].packet) = 2 /\ ~batches[1].acquired[2]

\* the keys of call i of a packet
KeysOf(packet, i) == {packet[i].caller, packet[i].destination}

C6_TotalBalanceConserved ==
    \A w \in DOMAIN batches :
        batches[w].stage = "released" => total_balance(page_table) = batches[w].balance_before

\* the call par_execute has just run, its loaded page indices and its pages
ExecTx == batches[exec.worker].packet[exec.call]
ExecLoaded == batches[exec.worker].loaded[exec.call][1]
ExecPages == {ExecLoaded[1] + 1, ExecLoaded[2] + 1}

RECURSIVE balance_of(_, _, _, _)
\* the sum of the balances of the pages ixs of table that are (spendable) or
\* are not (~spendable) under contract
balance_of(table, ixs, contract, spendable) ==
    IF ixs = {} THEN 0
    ELSE LET ix == CHOOSE x \in ixs : TRUE IN
         (IF (table[ix].contract = contract) = spendable THEN table[ix].balance ELSE 0)
         + balance_of(table, ixs \ {ix}, contract, spendable)

\* C7 (as stated): for a call whose writes are committed, the spendable sum
\* and the unspendable sum over the call's pages are the same before and after
\* the method runs.
C7_CommittedSumsUnchanged ==
    [][exec'.outcome = "committed" =>
          LET tx == ExecTx'
              before == spend_fee(page_table, ExecLoaded', tx)
          IN  /\ balance_of(page_table', ExecPages', tx.contract, TRUE)
                    = balance_of(before, ExecPages', tx.contract, TRUE)
              /\ balance_of(page_table', ExecPages', tx.contract, FALSE)
                    = balance_of(before, ExecPages', tx.contract, FALSE)]_vars

\* C8 (as stated): a call that fails at any stage leaves every page as it was,
\* the caller's balance included: no fee is taken.
C8_FailedCallChangesNothing ==
    [][exec'.outcome \in {"skipped", "discarded"} => page_table' = page_table]_vars

\* C8 (as amended): a call that did not acquire the lock or whose debit was not
\* validated changes no page; a call that fails the conservation check has the
\* writes of its method discarded, but its fee stays debited from the caller's
\* page, and nothing else changes.
C8_FailedCallPaysFeeOnly ==
    [][/\ exec'.outcome = "skipped" => page_table' = page_table
       /\ exec'.outcome = "discarded" =>
              page_table' = spend_fee(page_table, ExecLoaded', ExecTx')]_vars

\* a move_funds call with a fee has failed the conservation check
C8_Witness ==
    /\ exec.outcome = "discarded"
    /\ ExecTx.fee > 0 /\ ExecTx.method = 128 /\ ExecTx.user_data > 0
    /\ ExecTx.caller /= ExecTx.destination

\* C9 (as stated): a committed call advances the version of the caller's page
\* to at least call.version, so that the same call fails validate_debits when
\* the batch is run again.
C9_CommittedCallAdvancesVersion ==
    exec.outcome = "committed" =>
        /\ page_table[ExecLoaded[1] + 1].version >= ExecTx.version
        /\ validate_debit(page_table, allocated_pages, ExecTx, TRUE) = None

\* C20 (as stated): every key inserted into the lock set by stage 1 of a batch
\* is eventually removed, whatever happens to the calls of the batch in the
\* stages 2 to 5.
C20_LockedKeyEventuallyReleased ==
    \A key \in PageKeys : (key \in mem_locks) ~> (key \notin mem_locks)

(***************************************************************************)
(* Claims about validate_debits and the balances                           *)
(***************************************************************************)
\* the caller's page exists, is owned by the caller, is older than the call,
\* belongs to the call's contract and holds fee + amount, the sum taken over
\* the integers
DebitCovered(table, ap, tx) ==
    /\ lookup(ap, tx.caller) /= None
    /\ lookup(ap, tx.caller)[1] < Len(table)
    /\ LET page == table[lookup(ap, tx.caller)[1] + 1] IN
          /\ page.owner = tx.caller
          /\ page.version < tx.version
          /\ page.contract = tx.contract
          /\ page.balance >= tx.fee + tx.amount

\* C21 (as stated): after validate_debits, from_pages[i] is the index of the
\* caller's page if and only if call i acquired the lock and the caller's page
\* is owned by the caller, has a version below call.version, the call's
\* contract and a balance of at least fee + amount; otherwise it is None.
C21_FromPageIffDebitCovered ==
    \A w \in DOMAIN batches :
        batches[w].stage = "validated" =>
            \A i \in 1..Len(batches[w].packet) :
                batches[w].from_pages[i] =
                    IF /\ batches[w].acquired[i]
                       /\ DebitCovered(page_table, allocated_pages, batches[w].packet[i])
                    THEN lookup(allocated_pages, batches[w].packet[i].caller)
                    ELSE None

\* C22 (as stated): a committed move_funds call lowers the caller's balance by
\* exactly fee + amount, raises the destination's balance by exactly amount,
\* advances the caller's version and changes no other page.
C22_MoveFundsMovesExactly ==
    [][/\ exec'.outcome = "committed"
       /\ ExecTx'.method = 128 /\ ExecTx'.contract = DEFAULT_CONTRACT
       /\ ExecTx'.caller /= ExecTx'.destination
       => LET tx == ExecTx'
              from == ExecLoaded'[1] + 1
              to == ExecLoaded'[2] + 1
          IN  /\ page_table'[from].balance = page_table[from].balance - (tx.fee + tx.amount)
              /\ page_table'[to].balance = page_table[to].balance + tx.amount
              /\ page_table'[from].version > page_table[from].version
              /\ \A ix \in DOMAIN page_table :
                     ix \notin {from, to} => page_table'[ix] = page_table[ix]]_vars

\* C23 (as stated): the debits of a call never wrap: the fee is taken only
\* from a balance that holds it, and move_funds subtracts the amount only from
\* a balance that, the fee paid, still holds it.
C23_DebitsNeverWrap ==
    [][exec'.outcome \in {"committed", "discarded", "panicked"}
       => LET tx == ExecTx'
              from == ExecLoaded'[1] + 1
          IN  /\ page_table[from].balance >= tx.fee
              /\ (exec'.outcome = "committed" /\ tx.method = 128
                    /\ tx.contract = DEFAULT_CONTRACT)
                 => page_table[from].balance - tx.fee >= tx.amount]_vars

(***************************************************************************)
(* Claims about the credits                                                *)
(***************************************************************************)
\* C24: epoch_credits never holds more than MAX_EPOCH_CREDITS_HISTORY tuples,
\* and a call that would add one more to a full history drops the oldest:
\* the history is then the old one without its first tuple, followed by the
\* new tuple.
C24_CreditsHistoryBounded ==
    /\ [](Len(vote_state.epoch_credits) <= MAX_EPOCH_CREDITS_HISTORY)
    /\ [][/\ Len(vote_state.epoch_credits) = MAX_EPOCH_CREDITS_HISTORY
          /\ credits(vote_state') /= credits(vote_state)
          /\ arg'.epoch /= current_epoch(vote_state)
          => /\ Len(vote_state'.epoch_credits) = MAX_EPOCH_CREDITS_HISTORY
             /\ Front(vote_state'.epoch_credits) = Tail(vote_state.epoch_credits)
             /\ Last(vote_state'.epoch_credits)[1] = arg'.epoch]_vars

\* a full history has taken a credit for a new epoch
C24_Witness ==
    /\ Len(vote_state.epoch_credits) = MAX_EPOCH_CREDITS_HISTORY
    /\ vote_state.epoch_credits[1][1] > 0
    /\ op \in {"increment_credits", "process_slot"}

\* C25 (as stated): whatever epochs the caller supplies, the epochs of the
\* tuples of epoch_credits never decrease from the oldest to the newest.
C25_CreditEpochsNonDecreasing ==
    \A k \in 1..(Len(vote_state.epoch_credits) - 1) :
        vote_state.epoch_credits[k][1] <= vote_state.epoch_credits[k + 1][1]

C27_TimestampMonotonic ==
    [][/\ vote_state'.last_timestamp.slot >= vote_state.last_timestamp.slot
       /\ vote_state'.last_timestamp.timestamp >= vote_state.last_timestamp.timestamp
       /\ ret' = "TimestampTooOld"
             => vote_state'.last_timestamp = vote_state.last_timestamp]_vars

\* a timestamp has been refused after both fields had advanced
C27_Witness ==
    /\ op = "process_timestamp" /\ ret = "TimestampTooOld"
    /\ vote_state.last_timestamp.slot >= 2
    /\ vote_state.last_timestamp.timestamp >= 2
    /\ arg.slot > vote_state.last_timestamp.slot
    /\ arg.timestamp < vote_state.last_timestamp.timestamp

\* the pair handed to process_timestamp
ArgTimestamp(a) == [slot |-> a.slot, timestamp |-> a.timestamp]

\* exactly one field of the pair equals the stored one
OneFieldEqual(pair, last) ==
    (pair.slot = last.slot) /= (pair.timestamp = last.timestamp)

\* C28 (as stated): process_timestamp returns TimestampTooOld exactly when the
\* slot is below the stored slot, or the timestamp is below the stored
\* timestamp, or exactly one of the two equals the stored one while the stored
\* timestamp is not the initial one.
C28_TooOldUnlessInitialPair ==
    [][op' = "process_timestamp"
       => LET last == vote_state.last_timestamp
              pair == ArgTimestamp(arg')
          IN  (ret' = "TimestampTooOld") <=>
                  \/ pair.slot < last.slot
                  \/ pair.timestamp < last.timestamp
                  \/ /\ OneFieldEqual(pair, last)
                     /\ last /= VoteState_default.last_timestamp]_vars

\* C28 (as amended): process_timestamp returns TimestampTooOld exactly when
\* the slot is below the stored slot, or the timestamp is below the stored
\* timestamp, or exactly one of the two equals the stored one while the stored
\* slot is not 0; otherwise it stores the pair.  The stored pair again, a pair
\* larger in both fields, and (0, ts) with ts >= 0 on a fresh state are
\* accepted.
C28_TooOldUnlessStoredSlotZero ==
    [][op' = "process_timestamp"
       => LET last == vote_state.last_timestamp
              pair == ArgTimestamp(arg')
          IN  /\ (ret' = "TimestampTooOld") <=>
                     \/ pair.slot < last.slot
                     \/ pair.timestamp < last.timestamp
                     \/ OneFieldEqual(pair, last) /\ last.slot /= 0
              /\ ret' \in {"Ok", "TimestampTooOld"}
              /\ ret' = "Ok" => vote_state'.last_timestamp = pair
              /\ pair = last => ret' = "Ok"
              /\ (pair.slot > last.slot /\ pair.timestamp > last.timestamp) => ret' = "Ok"
              /\ (last = VoteState_default.last_timestamp /\ pair.slot = 0
                    /\ pair.timestamp >= 0) => ret' = "Ok"]_vars

\* a later timestamp has been stored for slot 0 after an earlier operation
C28_Witness ==
    /\ op = "process_timestamp" /\ ret = "Ok"
    /\ steps >= 2
    /\ arg.slot = 0 /\ arg.timestamp >= 2
    /\ vote_state.last_timestamp = ArgTimestamp(arg)

(***************************************************************************)
(* Claims about the authorities                                            *)
(***************************************************************************)
\* the entries of prior_voters written so far (the buffer has not wrapped)
PriorVoters(vs) ==
    SubSeq(vs.prior_voters.buf, 1, (vs.prior_voters.idx + 1) % MAX_ITEMS)

\* C29 (as stated): whatever signers and clocks the caller supplies, a signed
\* authorize(Voter) whose clock.epoch equals authorized_voter_epoch fails with
\* TooSoonToReauthorize and changes nothing, and no two successful Voter
\* re-authorizations (the entries of prior_voters) carry the same clock.epoch.
C29_OneReauthorizationPerEpoch ==
    /\ [](\A i, j \in 1..Len(PriorVoters(vote_state)) :
              i /= j => PriorVoters(vote_state)[i][3] /= PriorVoters(vote_state)[j][3])
    /\ [][/\ op' = "authorize" /\ arg'.vote_authorize = "Voter"
          /\ vote_state.authorized_voter \in arg'.signers
          /\ arg'.epoch = vote_state.authorized_voter_epoch
          => ret' = "TooSoonToReauthorize" /\ vote_state' = vote_state]_vars

\* the operations that ask for a signature, and the key each asks for
GatedOps == {"process_vote", "update_node", "authorize", "withdraw"}

Authority(vs, name, a) ==
    IF name = "withdraw" \/ (name = "authorize" /\ a.vote_authorize = "Withdrawer")
    THEN vs.authorized_withdrawer ELSE vs.authorized_voter

\* nothing of the two accounts changes
AccountsUnchanged ==
    vote_state' = vote_state /\ lamports' = lamports /\ to_lamports' = to_lamports

\* authorize changes one authority and leaves the other as it was
AuthoritiesIndependent ==
    (op' = "authorize" /\ arg'.vote_authorize = "Voter"
        => vote_state'.authorized_withdrawer = vote_state.authorized_withdrawer)
    /\ (op' = "authorize" /\ arg'.vote_authorize = "Withdrawer"
        => /\ vote_state'.authorized_voter = vote_state.authorized_voter
           /\ vote_state'.authorized_voter_epoch = vote_state.authorized_voter_epoch
           /\ vote_state'.prior_voters = vote_state.prior_voters)

\* right after a successful authorize(Voter, target) that changed the voter, a
\* vote signed only by the previous voter is rejected and a vote signed by
\* target is accepted
VoterHandedOver ==
    (/\ op = "authorize" /\ ret = "Ok" /\ arg.vote_authorize = "Voter"
     /\ op' = "process_vote")
    => LET previous == Last(PriorVoters(vote_state))[1] IN
       /\ (arg'.signers = {previous} /\ previous /= arg.authorized)
             => ret' /= "Ok" /\ AccountsUnchanged
       /\ arg.authorized \in arg'.signers => ret' = "Ok"

C31_WithdrawMovesOrRefuses ==
    [][(op' = "withdraw" /\ vote_state.authorized_withdrawer \in arg'.signers)
       => IF lamports >= arg'.lamports
          THEN /\ ret' = "Ok"
               /\ lamports' = lamports - arg'.lamports
               /\ to_lamports' = to_lamports + arg'.lamports
               /\ lamports' + to_lamports' = lamports + to_lamports
               /\ vote_state' = vote_state
          ELSE /\ ret' = "InsufficientFunds"
               /\ AccountsUnchanged]_vars

\* a withdrawal has emptied the vote account and the next one was refused
C31_Witness ==
    /\ op = "withdraw" /\ ret = "InsufficientFunds"
    /\ vote_state.authorized_withdrawer \in arg.signers
    /\ arg.lamports > lamports
    /\ to_lamports > 0

(***************************************************************************)
(* Claims about the lockouts of the tower                                  *)
(***************************************************************************)
\* C32 (as stated): after a process_slot(slot) that is not ignored, no entry
\* of votes below the newly pushed one is expired with respect to slot.
C32_NoExpiredVoteRemains ==
    [][(op' = "process_slot" /\ ~is_old_slot(vote_state, arg'.slot))
       => \A k \in 1..(Len(vote_state'.votes) - 1) :
             ~is_expired(vote_state'.votes[k], arg'.slot)]_vars

\* C32 (as amended): a process_slot(slot) that is not ignored drops expired
\* votes from the back until it meets one that is not expired: the entry
\* just below the newly pushed one is not expired with respect to slot, and
\* every entry that has left the tower was expired or is the promoted root.
\* An older entry can stay although it is expired.
C32_ExpiredVotesDropOffTheBack ==
    [][(op' = "process_slot" /\ ~is_old_slot(vote_state, arg'.slot))
       => LET slot == arg'.slot
              after == vote_state'.votes
              kept == {after[k].slot : k \in 1..Len(after)}
          IN  /\ Last(after).slot = slot
              /\ Len(after) > 1 => ~is_expired(after[Len(after) - 1], slot)
              /\ \A k \in 1..Len(vote_state.votes) :
                     vote_state.votes[k].slot \notin kept
                     => \/ is_expired(vote_state.votes[k], slot)
                        \/ k = 1 /\ vote_state'.root_slot = Some(vote_state.votes[1].slot)]_vars

\* an expired entry has stayed in the tower below a newer one that is not
\* expired
C32_Witness ==
    /\ op = "process_slot"
    /\ Len(vote_state.votes) >= 3
    /\ Last(vote_state.votes).slot = arg.slot
    /\ is_expired(vote_state.votes[1], arg.slot)
    /\ ~is_expired(vote_state.votes[2], arg.slot)

(***************************************************************************)
(* Claims about slashable_slots and previous_signer                        *)
(***************************************************************************)
\* C33 (as stated): every slot that slashable_slots returns for a candidate
\* list is absent from the votes of this state.
C33_SlashableSlotsAreNew ==
    \A candidates \in Candidates(vote_state) :
        \A slot \in slashable_slots(vote_state, candidates) :
            \A k \in 1..Len(vote_state.votes) : vote_state.votes[k].slot /= slot

(***************************************************************************)
(* Claims about assign and the allocation of pages                         *)
(***************************************************************************)
\* C34 (as stated): an assign call (method 1) of the DEFAULT contract on a
\* caller page whose contract is DEFAULT, once validate_debits has let it
\* through, leaves the caller page with the decoded key as its contract,
\* whatever the balance of the page; and no call changes the contract of a
\* page that is not DEFAULT any more.
C34_AssignSetsContractOnce ==
    [][/\ (/\ exec'.outcome \in {"committed", "discarded"}
           /\ ExecTx'.method = 1 /\ ExecTx'.contract = DEFAULT_CONTRACT
           /\ page_table[ExecLoaded'[1] + 1].contract = DEFAULT_CONTRACT
           => page_table'[ExecLoaded'[1] + 1].contract = ExecTx'.user_data)
       /\ \A ix \in DOMAIN page_table :
              page_table[ix].contract /= DEFAULT_CONTRACT
              => page_table'[ix].contract = page_table[ix].contract]_vars

(***************************************************************************)
(* Claims about the shape of the tower                                     *)
(***************************************************************************)
\* the confirmation counts fall strictly from the oldest entry to the newest,
\* the newest entry has count 1 and the entry at 0-based position i from the
\* front has a count of at least len - i
StrictlyDecreasing(votes) ==
    /\ \A k \in 1..(Len(votes) - 1) :
           votes[k].confirmation_count > votes[k + 1].confirmation_count
    /\ votes /= <<>> => Last(votes).confirmation_count = 1
    /\ \A k \in 1..Len(votes) : votes[k].confirmation_count >= Len(votes) - (k - 1)

\* an entry that is in the tower before and after a call of process_slot has
\* afterwards the count it had or one more
SurvivorsGrowByOne(before, after) ==
    \A k \in 1..Len(before) : \A j \in 1..Len(after) :
        before[k].slot = after[j].slot
        => /\ after[j].confirmation_count >= before[k].confirmation_count
           /\ after[j].confirmation_count <= before[k].confirmation_count + 1

\* C35: in every state reached from a fresh VoteState by process_slot calls
\* the confirmation counts strictly decrease from the oldest entry to the
\* newest, the newest count is 1 and the entry at front-index i has a count
\* >= len - i; over one call of process_slot the count of a surviving entry
\* never decreases and grows by at most one.
C35_TowerShape ==
    /\ [](IF Tower = <<>> THEN TRUE ELSE StrictlyDecreasing(Tower))
    /\ [][op' = "process_slot" => SurvivorsGrowByOne(Tower, Tower')]_vars

\* votes have expired and the oldest entry has a count above the length of the
\* tower
C35_Witness ==
    /\ op = "process_slot"
    /\ expired
    /\ Len(Tower) >= 2
    /\ Tower[1].confirmation_count > Len(Tower)
    /\ Last(Tower).slot = arg.slot

\* C36: as long as no vote has expired, root promotions included, every entry
\* at 0-based position i from the front has a confirmation count of exactly
\* len - i (its lockout, INITIAL_LOCKOUT ^ confirmation_count, is then
\* 2^(len - i)).
C36_ExactCountsWithoutExpiry ==
    ~expired =>
        \A k \in 1..Len(Tower) :
            Tower[k].confirmation_count = Len(Tower) - (k - 1)

\* a full tower that has just promoted a root with process_slot, no vote
\* having expired
C36_Witness ==
    /\ ~expired
    /\ op = "process_slot"
    /\ vote_state.root_slot /= None
    /\ Len(Tower) = MAX_LOCKOUT_HISTORY
    /\ Last(Tower).slot = arg.slot
    /\ Last(Tower).confirmation_count = 1

(***************************************************************************)
(* Claims about AllocatedPages and the allocation of pages                 *)
(***************************************************************************)
\* each key has one index, no two keys share an index, no index of a key is on
\* the free list, every index of a key is below max and inside the page
\* vector, and the page at the index of a key is owned by the key
ConsistentIndex(ap, table) ==
    /\ \A k1 \in DOMAIN ap.allocated : \A k2 \in DOMAIN ap.allocated :
           ap.allocated[k1] = ap.allocated[k2] => k1 = k2
    /\ \A k \in DOMAIN ap.allocated :
           /\ \A f \in 1..Len(ap.free) : ap.free[f] /= ap.allocated[k]
           /\ ap.allocated[k] < ap.max
           /\ ap.allocated[k] < Len(table)
           /\ table[ap.allocated[k] + 1].owner = k

\* C37: in every state reached through the pipeline and free, AllocatedPages
\* is a consistent index of the page vector, and no batch has stopped on the
\* assertion of allocate (key already present) or on the owner assertion of
\* validate_debits.
C37_AllocatedPagesConsistent ==
    /\ ConsistentIndex(allocated_pages, page_table)
    /\ \A w \in DOMAIN batches : batches[w].stage /= "panicked"

\* a page was freed and allocate_keys has given its index to another key
C37_Witness ==
    /\ steps = MaxFrees
    /\ allocated_pages.free = <<>>
    /\ \E w \in DOMAIN batches :
          /\ batches[w].stage = "allocated"
          /\ \E k \in DOMAIN allocated_pages.allocated :
                /\ k = batches[w].packet[1].destination
                /\ k \notin DOMAIN LocksGenesis.allocated_pages.allocated
                /\ allocated_pages.allocated[k] < LocksGenesis.allocated_pages.max
                /\ batches[w].to_pages[1] = Some(allocated_pages.allocated[k])

\* C38: after find_new_keys and allocate_keys every call with a validated
\* debit has a destination page index and every other call has none and has
\* allocated nothing; a page allocated in this stage has owner = destination,
\* contract = call.contract, balance 0 and version 0, and the pages that were
\* there are not modified.
C38_AllocateKeysFillsDestinations ==
    [][\A w \in DOMAIN batches :
          batches[w].stage = "found" /\ batches'[w].stage = "allocated"
          => LET b == batches'[w]
                 new == {i \in 1..Len(b.packet) :
                            /\ b.from_pages[i] /= None
                            /\ lookup(allocated_pages, b.packet[i].destination) = None}
             IN  /\ \A i \in 1..Len(b.packet) :
                        (b.from_pages[i] /= None) = (b.to_pages[i] /= None)
                 /\ \A i \in 1..Len(b.packet) :
                        b.to_pages[i] /= None
                        => b.to_pages[i] = lookup(allocated_pages', b.packet[i].destination)
                 /\ DOMAIN allocated_pages'.allocated
                        = DOMAIN allocated_pages.allocated
                            \cup {b.packet[i].destination : i \in new}
                 /\ \A i \in new :
                        LET page == page_table'[b.to_pages[i][1] + 1] IN
                        /\ page.owner = b.packet[i].destination
                        /\ page.contract = b.packet[i].contract
                        /\ page.balance = 0
                        /\ page.version = 0
                 /\ \A ix \in DOMAIN page_table : page_table'[ix] = page_table[ix]]_vars

\* allocate_keys has allocated the page of a destination that had none, for a
\* call of a contract other than DEFAULT
C38_Witness ==
    /\ batches[1].stage = "allocated"
    /\ batches[1].from_pages[1] /= None
    /\ batches[1].packet[1].contract /= DEFAULT_CONTRACT
    /\ batches[1].to_pages[1] = Some(Len(page_table) - 1)
    /\ Len(page_table) = 2
    /\ page_table[2].owner = batches[1].packet[1].destination
    /\ page_table[2].contract = batches[1].packet[1].contract
    /\ page_table[2].balance = 0
    /\ exec = NoExec

(***************************************************************************)
(* Claims about release_memory_lock and previous_signer                    *)
(***************************************************************************)
\* worker w has gone through release_memory_lock in this step
Releases(w) == batches[w].stage = "executed" /\ batches'[w].stage = "released"

\* the keys of the calls of w's batch that hold the lock, and of those that
\* do not
AcquiredKeys(w) ==
    UNION {KeysOf(batches[w].packet, i) :
              i \in {j \in 1..Len(batches[w].packet) : batches[w].acquired[j]}}
FailedKeys(w) ==
    UNION {KeysOf(batches[w].packet, i) :
              i \in {j \in 1..Len(batches[w].packet) : ~batches[w].acquired[j]}}

\* acquire_memory_lock on the lock set after the step gives every call of w's
\* batch the lock
BatchAcquires(w) ==
    LET again == acquire_memory_lock(mem_locks', batches[w].packet, <<>>) IN
    \A i \in 1..Len(batches[w].packet) : again.acquired_memory[i]

\* C39 (as stated): release_memory_lock removes exactly the keys of the calls
\* with acquired[i] = true; the keys of the calls that failed to acquire stay
\* locked; after the release the same batch can acquire the lock for all its
\* calls.
C39_ReleaseThenAcquireAll ==
    [][\A w \in DOMAIN batches :
          Releases(w)
          => /\ mem_locks' = mem_locks \ AcquiredKeys(w)
             /\ \A k \in FailedKeys(w) : k \in mem_locks => k \in mem_locks'
             /\ BatchAcquires(w)]_vars

\* C39 (amended): release_memory_lock removes exactly the keys of the calls
\* with acquired[i] = true; a key of a call that failed to acquire stays locked
\* unless it is also a key of an acquired call of the batch; a batch that held
\* the lock for all its calls can acquire it for all of them again after the
\* release.
C39_ReleaseFreesAcquiredKeys ==
    [][\A w \in DOMAIN batches :
          Releases(w)
          => /\ mem_locks' = mem_locks \ AcquiredKeys(w)
             /\ \A k \in FailedKeys(w) \ AcquiredKeys(w) :
                    k \in mem_locks => k \in mem_locks'
             /\ (\A i \in 1..Len(batches[w].packet) : batches[w].acquired[i])
                    => BatchAcquires(w)]_vars

\* a batch with an acquired and a failed call has been released while the key
\* of the failed call is held by the other worker's batch
C39_Witness ==
    /\ batches[1].stage = "released"
    /\ Len(batches[1].packet) = 2
    /\ batches[2].stage \in {"acquired", "validated", "found", "allocated", "executing", "executed"}
    /\ batches[2].acquired = <<TRUE>>
    /\ mem_locks = KeysOf(batches[2].packet, 1)
    /\ KeysOf(batches[1].packet, 2) \cap mem_locks /= {}
    /\ KeysOf(batches[1].packet, 1) \cap mem_locks = {}

\* C40 (as stated): previous_signer(signers) is true exactly when signers
\* holds the current authorized_voter or a voter that an earlier
\* authorize(Voter) recorded in prior_voters; the default entries of the
\* buffer are skipped.
C40_PreviousSignerIsCurrentOrPrior ==
    \A signers \in SUBSET Pubkeys :
        previous_signer(vote_state, signers)
        = \/ vote_state.authorized_voter \in signers
          \/ \E k \in 1..Len(PriorVoters(vote_state)) :
                /\ PriorVoters(vote_state)[k][1] /= Pubkey_default
                /\ PriorVoters(vote_state)[k][1] \in signers

====
